---- MODULE Spec2Model ----
(***************************************************************************)
(* HTML Rainbow: the three depth lexers of the extension.                  *)
(*   HtmlParser   (MarkupLexer)  parsers/htmlParser.ts                     *)
(*   JsxParser    (HybridLexer)  parsers/jsxParser.ts                      *)
(*   ObjectParser (ObjectLexer)  parsers/objectParser.ts                   *)
(* A text is a sequence of one-character strings.  Offsets are 0-based as  *)
(* in the source: At(t, p) is the source's t[p].                           *)
(***************************************************************************)
EXTENDS Integers, Sequences, FiniteSets, TLC

(***************************************************************************)
(* Bounds of the model: the length, in pieces, of the input texts.         *)
(***************************************************************************)
MaxNest == 6

MaxHtmlFrag == 4

MaxJsxFrag == 3

MaxObjFrag == 3

MaxBrace == 6

(***************************************************************************)
(* Characters and JavaScript's character tests.                            *)
(***************************************************************************)
Lower == {"a","b","c","d","e","f","g","h","i","j","k","l","m",
          "n","o","p","q","r","s","t","u","v","w","x","y","z"}

Upper == {"A","B","C","D","E","F","G","H","I","J","K","L","M",
          "N","O","P","Q","R","S","T","U","V","W","X","Y","Z"}

Digit == {"0","1","2","3","4","5","6","7","8","9"}

Alpha == Lower \cup Upper

\* text[p] for p outside the text is JavaScript's undefined
Undefined == "undefined"

At(t, p) == IF p >= 0 /\ p < Len(t) THEN t[p + 1] ELSE Undefined

\* RegExp.test(c) for a one-character class: undefined is tested as the
\* string "undefined", which matches when one of its letters is in the class
Test(class, c) ==
  IF c = Undefined THEN class \cap {"u","n","d","e","f","i"} # {}
  ELSE c \in class

\* the template-literal quote (the grave accent), written as a token
Backtick == "bt"

\* /\s/
Space == {" ", "\n", "\t"}

\* /[a-zA-Z][a-zA-Z0-9._:-]*/ of the markup lexer
HtmlNameChar == Alpha \cup Digit \cup {".", "_", ":", "-"}

\* /[a-zA-Z_]/ and /[a-zA-Z0-9._-]/ of the hybrid lexer
JsxNameStart == Alpha \cup {"_"}

JsxNameChar == Alpha \cup Digit \cup {".", "_", "-"}

\* /[a-zA-Z_$]/ and /[a-zA-Z0-9_$]/ of property keys
IdStart == Alpha \cup {"_", "$"}

IdChar == Alpha \cup Digit \cup {"_", "$"}

\* String.prototype.toLowerCase, one character
LowerOf(c) ==
  CASE c = "A" -> "a" [] c = "B" -> "b" [] c = "C" -> "c" [] c = "D" -> "d"
    [] c = "E" -> "e" [] c = "F" -> "f" [] c = "G" -> "g" [] c = "H" -> "h"
    [] c = "I" -> "i" [] c = "J" -> "j" [] c = "K" -> "k" [] c = "L" -> "l"
    [] c = "M" -> "m" [] c = "N" -> "n" [] c = "O" -> "o" [] c = "P" -> "p"
    [] c = "Q" -> "q" [] c = "R" -> "r" [] c = "S" -> "s" [] c = "T" -> "t"
    [] c = "U" -> "u" [] c = "V" -> "v" [] c = "W" -> "w" [] c = "X" -> "x"
    [] c = "Y" -> "y" [] c = "Z" -> "z" [] OTHER -> c

toLowerCase(s) == [k \in 1..Len(s) |-> LowerOf(s[k])]

\* String.prototype.slice(a, b) for 0 <= a
slice(t, a, b) ==
  IF b > Len(t) THEN SubSeq(t, a + 1, Len(t)) ELSE SubSeq(t, a + 1, b)

Min(a, b) == IF a < b THEN a ELSE b

Last(s) == s[Len(s)]

Front(s) == SubSeq(s, 1, Len(s) - 1)

RECURSIVE Flatten(_)
Flatten(ps) == IF ps = <<>> THEN <<>> ELSE Head(ps) \o Flatten(Tail(ps))

\* offset in the text of piece k of ps
RECURSIVE OffsetOf(_, _)
OffsetOf(ps, k) == IF k <= 1 THEN 0 ELSE OffsetOf(ps, k - 1) + Len(ps[k - 1])

(***************************************************************************)
(* Markup lexer: HtmlParser                                                *)
(***************************************************************************)
VOID_ELEMENTS ==
  { <<"a","r","e","a">>, <<"b","a","s","e">>, <<"b","r">>, <<"c","o","l">>,
    <<"e","m","b","e","d">>, <<"h","r">>, <<"i","m","g">>,
    <<"i","n","p","u","t">>, <<"l","i","n","k">>, <<"m","e","t","a">>,
    <<"p","a","r","a","m">>, <<"s","o","u","r","c","e">>,
    <<"t","r","a","c","k">>, <<"w","b","r">>,
    <<"c","o","m","m","a","n","d">>, <<"k","e","y","g","e","n">>,
    <<"m","e","n","u","i","t","e","m">> }

\* the result of findTagEnd: no end found
NoEnd == [end |-> -1, selfClosing |-> FALSE]

\* findTagEnd's loop from position p with its two locals
RECURSIVE findTagEndFrom(_, _, _, _, _)
findTagEndFrom(t, p, isClosing, inString, stringChar) ==
  IF p >= Len(t) THEN NoEnd
  ELSE LET char == At(t, p) IN
    IF inString THEN
      IF char = stringChar /\ At(t, p - 1) # "\\"
        THEN findTagEndFrom(t, p + 1, isClosing, FALSE, stringChar)
        ELSE findTagEndFrom(t, p + 1, isClosing, TRUE, stringChar)
    ELSE IF char = "\"" \/ char = "'" THEN
      findTagEndFrom(t, p + 1, isClosing, TRUE, char)
    ELSE IF char = ">" THEN
      [end |-> p + 1, selfClosing |-> (~isClosing /\ At(t, p - 1) = "/")]
    ELSE IF char = "<" THEN NoEnd
    ELSE findTagEndFrom(t, p + 1, isClosing, FALSE, stringChar)

findTagEnd(t, startPos, isClosing) ==
  findTagEndFrom(t, startPos, isClosing, FALSE, "")

\* end of the run of name characters that starts at p
RECURSIVE NameRunEnd(_, _, _)
NameRunEnd(t, p, class) ==
  IF p < Len(t) /\ At(t, p) \in class THEN NameRunEnd(t, p + 1, class) ELSE p

\* tagStartRegex /<\/?([a-zA-Z][a-zA-Z0-9._:-]*)/ matches at p
TagStartAt(t, p) ==
  /\ p < Len(t)
  /\ At(t, p) = "<"
  /\ \/ (p + 1 < Len(t) /\ At(t, p + 1) \in Alpha)
     \/ (p + 2 < Len(t) /\ At(t, p + 1) = "/" /\ At(t, p + 2) \in Alpha)

\* tagStartRegex.exec from lastIndex: the index of the next match, or -1
RECURSIVE NextTagStart(_, _)
NextTagStart(t, lastIndex) ==
  IF lastIndex >= Len(t) THEN -1
  ELSE IF TagStartAt(t, lastIndex) THEN lastIndex
  ELSE NextTagStart(t, lastIndex + 1)

\* mutant: the search gives up at the first malformed tag
RECURSIVE findAllTagsFrom_StopAtMalformed(_, _)
findAllTagsFrom_StopAtMalformed(t, lastIndex) ==
  LET index == NextTagStart(t, lastIndex) IN
  IF index = -1 THEN <<>>
  ELSE
    LET isClosing    == At(t, index + 1) = "/"
        nameStart    == IF isClosing THEN index + 2 ELSE index + 1
        nameEnd      == NameRunEnd(t, nameStart, HtmlNameChar)
        tagEndInfo   == findTagEnd(t, nameEnd, isClosing)
    IN IF tagEndInfo = NoEnd THEN <<>>
       ELSE << [type |-> IF isClosing THEN "close"
                         ELSE IF tagEndInfo.selfClosing THEN "selfClose"
                         ELSE "open",
                tagName |-> slice(t, nameStart, nameEnd),
                bracketStart |-> index,
                bracketEnd |-> tagEndInfo.end,
                nameStart |-> nameStart,
                nameEnd |-> nameEnd] >>
            \o findAllTagsFrom_StopAtMalformed(t, nameEnd)

\* the while loop of findAllTags, from the regex's lastIndex
RECURSIVE findAllTagsFrom(_, _)
findAllTagsFrom(t, lastIndex) ==
  LET index == NextTagStart(t, lastIndex) IN
  IF index = -1 THEN <<>>
  ELSE
    LET isClosing    == At(t, index + 1) = "/"
        bracketStart == index
        nameStart    == IF isClosing THEN index + 2 ELSE index + 1
        nameEnd      == NameRunEnd(t, nameStart, HtmlNameChar)
        tagName      == slice(t, nameStart, nameEnd)
        tagEndInfo   == findTagEnd(t, nameEnd, isClosing)
        rest         == findAllTagsFrom(t, nameEnd)
    IN IF tagEndInfo = NoEnd THEN rest
       ELSE << [type |-> IF isClosing THEN "close"
                         ELSE IF tagEndInfo.selfClosing THEN "selfClose"
                         ELSE "open",
                tagName |-> tagName,
                bracketStart |-> bracketStart,
                bracketEnd |-> tagEndInfo.end,
                nameStart |-> nameStart,
                nameEnd |-> nameEnd] >> \o rest

findAllTags(t) == findAllTagsFrom(t, 0)

\* the downward loop of findMatchingOpenTag, from index k (0-based)
RECURSIVE htmlMatchFrom(_, _, _)
htmlMatchFrom(stack, lowerTagName, k) ==
  IF k < 0 THEN -1
  ELSE IF toLowerCase(stack[k + 1]) = lowerTagName THEN k
  ELSE htmlMatchFrom(stack, lowerTagName, k - 1)

\* mutant: the stack is searched from the bottom up
htmlFindMatchingOpenTag_BottomUp(stack, tagName) ==
  LET hits == {k \in 0..Len(stack) - 1 :
                 toLowerCase(stack[k + 1]) = toLowerCase(tagName)}
  IN IF hits = {} THEN -1 ELSE CHOOSE k \in hits : \A h \in hits : k <= h

htmlFindMatchingOpenTag(stack, tagName) ==
  htmlMatchFrom(stack, toLowerCase(tagName), Len(stack) - 1)

ColoredRange(s, e, d) == [start |-> s, end |-> e, depth |-> d]

createTagRanges(tag, d) ==
  IF tag.type = "close" THEN
    << ColoredRange(tag.bracketStart, tag.bracketStart + 2, d),
       ColoredRange(tag.nameStart, tag.nameEnd, d),
       ColoredRange(tag.bracketEnd - 1, tag.bracketEnd, d) >>
  ELSE IF tag.type = "selfClose" THEN
    << ColoredRange(tag.bracketStart, tag.bracketStart + 1, d),
       ColoredRange(tag.nameStart, tag.nameEnd, d),
       ColoredRange(tag.bracketEnd - 2, tag.bracketEnd, d) >>
  ELSE
    << ColoredRange(tag.bracketStart, tag.bracketStart + 1, d),
       ColoredRange(tag.nameStart, tag.nameEnd, d),
       ColoredRange(tag.bracketEnd - 1, tag.bracketEnd, d) >>

\* mutant: the void-element test compares the name as written
IsVoid_CaseSensitive(tagName) == tagName \in VOID_ELEMENTS

\* whether an opening tag pushes its name
IsVoid(tagName) == toLowerCase(tagName) \in VOID_ELEMENTS

\* Array.prototype.splice(matchIndex): keep the first matchIndex entries
splice(stack, matchIndex) == SubSeq(stack, 1, matchIndex)

(***************************************************************************)
(* Hybrid lexer: JsxParser, its helpers                                    *)
(***************************************************************************)
NoMatch == [start |-> -1, end |-> -1]

jsxSkipToEndOfLine(t, pos) ==
  LET RECURSIVE scan(_)
      scan(p) == IF p < Len(t) /\ At(t, p) # "\n" THEN scan(p + 1) ELSE p
  IN scan(pos) + 1

jsxSkipBlockComment(t, pos) ==
  LET RECURSIVE scan(_)
      scan(p) ==
        IF p < Len(t) - 1 THEN
          IF At(t, p) = "*" /\ At(t, p + 1) = "/" THEN p + 2 ELSE scan(p + 1)
        ELSE Len(t)
  IN scan(pos + 2)

\* the inner loop of skipString over one ${...} interpolation
RECURSIVE jsxSkipInterpolation(_, _, _)
jsxSkipInterpolation(t, pos, d) ==
  IF pos < Len(t) /\ d > 0 THEN
    IF At(t, pos) = "{" THEN jsxSkipInterpolation(t, pos + 1, d + 1)
    ELSE IF At(t, pos) = "}" THEN jsxSkipInterpolation(t, pos + 1, d - 1)
    ELSE jsxSkipInterpolation(t, pos + 1, d)
  ELSE pos

\* the outer loop of skipString, pos already past the opening quote
RECURSIVE jsxSkipStringFrom(_, _, _)
jsxSkipStringFrom(t, pos, quote) ==
  IF pos >= Len(t) THEN pos
  ELSE IF At(t, pos) = "\\" THEN jsxSkipStringFrom(t, pos + 2, quote)
  ELSE IF At(t, pos) = quote THEN pos + 1
  ELSE IF At(t, pos) = "\n" /\ quote # Backtick THEN pos
  ELSE IF quote = Backtick /\ At(t, pos) = "$" /\ At(t, pos + 1) = "{" THEN
    jsxSkipStringFrom(t, jsxSkipInterpolation(t, pos + 2, 1), quote)
  ELSE jsxSkipStringFrom(t, pos + 1, quote)

jsxSkipString(t, pos, quote) == jsxSkipStringFrom(t, pos + 1, quote)

IsQuote(c) == c = "\"" \/ c = "'" \/ c = Backtick

\* the loop of skipJsxExpression
RECURSIVE skipJsxExpressionFrom(_, _, _)
skipJsxExpressionFrom(t, p, d) ==
  IF p < Len(t) /\ d > 0 THEN
    LET char == At(t, p) IN
    IF char = "{" THEN skipJsxExpressionFrom(t, p + 1, d + 1)
    ELSE IF char = "}" THEN skipJsxExpressionFrom(t, p + 1, d - 1)
    ELSE IF IsQuote(char) THEN
      skipJsxExpressionFrom(t, jsxSkipString(t, p, char), d)
    ELSE skipJsxExpressionFrom(t, p + 1, d)
  ELSE p

skipJsxExpression(t, pos) ==
  IF At(t, pos) # "{" THEN pos + 1 ELSE skipJsxExpressionFrom(t, pos + 1, 1)

NoTag == [tagName |-> <<>>, nameStart |-> -1, nameEnd |-> -1, end |-> -1,
          selfClosing |-> FALSE]

\* the tag-end loop of parseOpeningTag
RECURSIVE openingTagEndFrom(_, _, _, _, _, _)
openingTagEndFrom(t, nameStart, nameEnd, p, inString, stringChar) ==
  IF p >= Len(t) THEN NoTag
  ELSE LET char == At(t, p)
           found(e, sc) == [tagName |-> slice(t, nameStart, nameEnd),
                            nameStart |-> nameStart, nameEnd |-> nameEnd,
                            end |-> e, selfClosing |-> sc]
  IN
    IF inString THEN
      IF char = stringChar /\ At(t, p - 1) # "\\"
        THEN openingTagEndFrom(t, nameStart, nameEnd, p + 1, FALSE, stringChar)
        ELSE openingTagEndFrom(t, nameStart, nameEnd, p + 1, TRUE, stringChar)
    ELSE IF char = "{" THEN
      openingTagEndFrom(t, nameStart, nameEnd, skipJsxExpression(t, p),
                        FALSE, stringChar)
    ELSE IF char = "\"" \/ char = "'" THEN
      openingTagEndFrom(t, nameStart, nameEnd, p + 1, TRUE, char)
    ELSE IF char = "/" /\ At(t, p + 1) = ">" THEN found(p + 2, TRUE)
    ELSE IF char = ">" THEN found(p + 1, FALSE)
    ELSE IF char = "<" THEN NoTag
    ELSE openingTagEndFrom(t, nameStart, nameEnd, p + 1, FALSE, stringChar)

parseOpeningTag(t, pos) ==
  IF At(t, pos) # "<" THEN NoTag
  ELSE LET nameStart == pos + 1 IN
    IF ~Test(JsxNameStart, At(t, nameStart)) THEN NoTag
    ELSE LET nameEnd == NameRunEnd(t, nameStart, JsxNameChar)
         IN openingTagEndFrom(t, nameStart, nameEnd, nameEnd, FALSE, "")

\* while (i < text.length && /\s/.test(text[i])) i++
RECURSIVE SkipSpace(_, _)
SkipSpace(t, p) ==
  IF p < Len(t) /\ At(t, p) \in Space THEN SkipSpace(t, p + 1) ELSE p

parseClosingTag(t, pos) ==
  IF At(t, pos) # "<" \/ At(t, pos + 1) # "/" THEN NoTag
  ELSE LET actualNameStart == SkipSpace(t, pos + 2) IN
    IF ~Test(JsxNameStart, At(t, actualNameStart)) THEN NoTag
    ELSE LET nameEnd == NameRunEnd(t, actualNameStart, JsxNameChar)
             gt      == SkipSpace(t, nameEnd)
         IN IF At(t, gt) # ">" THEN NoTag
            ELSE [tagName |-> slice(t, actualNameStart, nameEnd),
                  nameStart |-> actualNameStart, nameEnd |-> nameEnd,
                  end |-> gt + 1, selfClosing |-> FALSE]

\* while (i >= 0 && /\s/.test(text[i])) i--
RECURSIVE SkipSpaceBack(_, _)
SkipSpaceBack(t, p) ==
  IF p >= 0 /\ At(t, p) \in Space THEN SkipSpaceBack(t, p - 1) ELSE p

\* getKeywordBefore: the run of letters ending at endPos, <<>> for null
jsxGetKeywordBefore(t, endPos) ==
  IF endPos < 0 \/ ~Test(Alpha, At(t, endPos)) THEN <<>>
  ELSE LET RECURSIVE back(_)
           back(s) == IF s > 0 /\ At(t, s - 1) \in Alpha THEN back(s - 1) ELSE s
       IN slice(t, back(endPos), endPos + 1)

KwReturn == <<"r","e","t","u","r","n">>

jsxIsObjectContext(t, position) ==
  LET p == SkipSpaceBack(t, position - 1) IN
  IF p < 0 THEN FALSE
  ELSE LET char == At(t, p) IN
    IF char = ">" /\ p > 0 /\ At(t, p - 1) = "=" THEN TRUE
    ELSE IF char \in {"=", ":", "(", "[", ",", "?"} THEN TRUE
    ELSE jsxGetKeywordBefore(t, p) = KwReturn

\* the downward loop of findMatchingOpenTag, from index k (0-based)
RECURSIVE jsxMatchFrom(_, _, _)
jsxMatchFrom(stack, tagName, k) ==
  IF k < 0 THEN -1
  ELSE IF stack[k + 1] = tagName THEN k
  ELSE jsxMatchFrom(stack, tagName, k - 1)

\* mutant: the names are compared ignoring case, as the markup parser does
jsxFindMatchingOpenTag_IgnoresCase(stack, tagName) ==
  htmlFindMatchingOpenTag(stack, tagName)

jsxFindMatchingOpenTag(stack, tagName) ==
  jsxMatchFrom(stack, tagName, Len(stack) - 1)

\* the identifier branch shared by both matchPropertyKey functions:
\* an identifier at pos followed, after white space, by a single colon
IdentifierKey(t, pos) ==
  IF pos < Len(t) /\ At(t, pos) \in IdStart THEN
    LET end   == NameRunEnd(t, pos, IdChar)
        colon == SkipSpace(t, end)
    IN IF At(t, colon) = ":" /\ At(t, colon + 1) # ":"
       THEN [start |-> pos, end |-> end] ELSE NoMatch
  ELSE NoMatch

jsxMatchPropertyKey(t, pos0) ==
  LET pos == SkipSpace(t, pos0) IN
  IF pos >= Len(t) THEN NoMatch ELSE IdentifierKey(t, pos)

(***************************************************************************)
(* Object lexer: ObjectParser, its helpers                                 *)
(***************************************************************************)
BLOCK_KEYWORDS ==
  { <<"i","f">>, <<"e","l","s","e">>, <<"f","o","r">>,
    <<"w","h","i","l","e">>, <<"d","o">>, <<"s","w","i","t","c","h">>,
    <<"t","r","y">>, <<"c","a","t","c","h">>,
    <<"f","i","n","a","l","l","y">>, <<"w","i","t","h">>,
    <<"c","l","a","s","s">>, <<"f","u","n","c","t","i","o","n">>,
    <<"a","s","y","n","c">>, <<"g","e","t">>, <<"s","e","t">> }

OBJECT_CONTEXT_CHARS == {"=", ":", "(", "[", ",", "?"}

\* 'return' and '=>'; getKeywordBefore yields letters only
OBJECT_CONTEXT_KEYWORDS == { KwReturn, <<"=", ">">> }

regexContextChars ==
  {"(", "[", "{", ",", ";", ":", "=", "!", "&", "|", "?", "+", "-", "~", "^"}

regexContextKeywords ==
  { <<"r","e","t","u","r","n">>, <<"c","a","s","e">>,
    <<"t","h","r","o","w">>, <<"i","n">>, <<"t","y","p","e","o","f">>,
    <<"i","n","s","t","a","n","c","e","o","f">>, <<"v","o","i","d">>,
    <<"d","e","l","e","t","e">>, <<"n","e","w">> }

regexFlags == {"g", "i", "m", "s", "u", "y"}

objSkipToEndOfLine(t, pos) ==
  LET RECURSIVE scan(_)
      scan(p) == IF p < Len(t) /\ At(t, p) # "\n" THEN scan(p + 1) ELSE p
  IN scan(pos) + 1

objSkipBlockComment(t, pos) ==
  LET RECURSIVE scan(_)
      scan(p) ==
        IF p < Len(t) - 1 THEN
          IF At(t, p) = "*" /\ At(t, p + 1) = "/" THEN p + 2 ELSE scan(p + 1)
        ELSE Len(t)
  IN scan(pos + 2)

\* skipString: the template-literal loop (pos past the opening quote) and,
\* with d > 0, the loop over one interpolation nested in it
RECURSIVE objSkipTemplateFrom(_, _)
RECURSIVE objSkipInterpolation(_, _, _)
objSkipTemplateFrom(t, pos) ==
  IF pos >= Len(t) THEN pos
  ELSE IF At(t, pos) = "\\" THEN objSkipTemplateFrom(t, pos + 2)
  ELSE IF At(t, pos) = Backtick THEN pos + 1
  ELSE IF At(t, pos) = "$" /\ At(t, pos + 1) = "{" THEN
    objSkipTemplateFrom(t, objSkipInterpolation(t, pos + 2, 1))
  ELSE objSkipTemplateFrom(t, pos + 1)

objSkipInterpolation(t, pos, d) ==
  IF pos < Len(t) /\ d > 0 THEN
    IF At(t, pos) = "{" THEN objSkipInterpolation(t, pos + 1, d + 1)
    ELSE IF At(t, pos) = "}" THEN objSkipInterpolation(t, pos + 1, d - 1)
    ELSE IF At(t, pos) = Backtick THEN
      objSkipInterpolation(t, objSkipTemplateFrom(t, pos + 1), d)
    ELSE objSkipInterpolation(t, pos + 1, d)
  ELSE pos

\* skipString: the loop over a regular string, pos past the opening quote
RECURSIVE objSkipRegularFrom(_, _, _)
objSkipRegularFrom(t, pos, quote) ==
  IF pos >= Len(t) THEN pos
  ELSE IF At(t, pos) = "\\" THEN objSkipRegularFrom(t, pos + 2, quote)
  ELSE IF At(t, pos) = quote THEN pos + 1
  ELSE IF At(t, pos) = "\n" /\ quote # Backtick THEN pos
  ELSE objSkipRegularFrom(t, pos + 1, quote)

objSkipString(t, pos, quote) ==
  IF quote = Backtick THEN objSkipTemplateFrom(t, pos + 1)
  ELSE objSkipRegularFrom(t, pos + 1, quote)

objGetKeywordBefore(t, endPos) ==
  IF endPos < 0 \/ ~Test(Alpha, At(t, endPos)) THEN <<>>
  ELSE LET RECURSIVE back(_)
           back(s) == IF s > 0 /\ At(t, s - 1) \in Alpha THEN back(s - 1) ELSE s
       IN slice(t, back(endPos), endPos + 1)

isRegexContext(t, pos) ==
  LET p == SkipSpaceBack(t, pos - 1) IN
  IF p < 0 THEN TRUE
  ELSE IF At(t, p) \in regexContextChars THEN TRUE
  ELSE LET keyword == objGetKeywordBefore(t, p)
       IN keyword # <<>> /\ keyword \in regexContextKeywords

\* skipRegex: the character-class loop, pos past the opening bracket
RECURSIVE skipRegexClass(_, _)
skipRegexClass(t, pos) ==
  IF pos < Len(t) /\ At(t, pos) # "]" THEN
    IF At(t, pos) = "\\" THEN skipRegexClass(t, pos + 2)
    ELSE skipRegexClass(t, pos + 1)
  ELSE pos

\* mutant: a bracketed character class is not skipped
RECURSIVE skipRegexFrom_NoClass(_, _)
skipRegexFrom_NoClass(t, pos) ==
  IF pos >= Len(t) THEN pos
  ELSE IF At(t, pos) = "\\" THEN skipRegexFrom_NoClass(t, pos + 2)
  ELSE IF At(t, pos) = "/" THEN NameRunEnd(t, pos + 1, regexFlags)
  ELSE IF At(t, pos) = "\n" THEN pos
  ELSE skipRegexFrom_NoClass(t, pos + 1)

RECURSIVE skipRegexFrom(_, _)
skipRegexFrom(t, pos) ==
  IF pos >= Len(t) THEN pos
  ELSE IF At(t, pos) = "\\" THEN skipRegexFrom(t, pos + 2)
  ELSE IF At(t, pos) = "/" THEN NameRunEnd(t, pos + 1, regexFlags)
  ELSE IF At(t, pos) = "\n" THEN pos
  ELSE IF At(t, pos) = "[" THEN skipRegexFrom(t, skipRegexClass(t, pos + 1) + 1)
  ELSE skipRegexFrom(t, pos + 1)

skipRegex(t, pos) == skipRegexFrom(t, pos + 1)

\* getParenContext: the backward search for the matching "(" ; yields the
\* value of i when the loop ends
RECURSIVE parenBack(_, _, _)
parenBack(t, p, d) ==
  IF p >= 0 /\ d > 0 THEN
    IF At(t, p) = ")" THEN parenBack(t, p - 1, d + 1)
    ELSE IF At(t, p) = "(" THEN parenBack(t, p - 1, d - 1)
    ELSE parenBack(t, p - 1, d)
  ELSE p

\* mutant: the keyword before the opening parenthesis is not looked at
getParenContext_NoKeyword(t, closeParenPos) ==
  LET openParenPos == parenBack(t, closeParenPos - 1, 1) + 1
      j == SkipSpaceBack(t, openParenPos - 1)
  IN IF j < 0 THEN "unknown" ELSE "call"

getParenContext(t, closeParenPos) ==
  LET openParenPos == parenBack(t, closeParenPos - 1, 1) + 1
      j == SkipSpaceBack(t, openParenPos - 1)
  IN IF j < 0 THEN "unknown"
     ELSE LET keyword == objGetKeywordBefore(t, j) IN
       IF keyword # <<>> /\ keyword \in BLOCK_KEYWORDS THEN "control"
       ELSE LET k == SkipSpace(t, closeParenPos + 1) IN
         IF k < Len(t) - 1 /\ At(t, k) = "=" /\ At(t, k + 1) = ">"
         THEN "arrow" ELSE "call"

objIsObjectContext(t, position) ==
  LET p == SkipSpaceBack(t, position - 1) IN
  IF p < 0 THEN FALSE
  ELSE LET char == At(t, p)
           parenContext == getParenContext(t, p)
           keyword == objGetKeywordBefore(t, p)
  IN
    IF char = ">" /\ p > 0 /\ At(t, p - 1) = "=" THEN TRUE
    ELSE IF char \in OBJECT_CONTEXT_CHARS THEN TRUE
    ELSE IF char = ")" /\ parenContext = "control" THEN FALSE
    ELSE IF char = ")" /\ parenContext \in {"arrow", "call"} THEN TRUE
    ELSE IF keyword # <<>> /\ keyword \in OBJECT_CONTEXT_KEYWORDS THEN TRUE
    ELSE FALSE

\* matchPropertyKey: the loop over a quoted key, pos past the opening quote
RECURSIVE quotedKeyEnd(_, _, _)
quotedKeyEnd(t, pos, quote) ==
  IF pos < Len(t) /\ At(t, pos) # quote THEN
    IF At(t, pos) = "\\" THEN quotedKeyEnd(t, pos + 2, quote)
    ELSE quotedKeyEnd(t, pos + 1, quote)
  ELSE pos

\* matchPropertyKey: the loop over a computed key, pos past the bracket
RECURSIVE computedKeyEnd(_, _, _)
computedKeyEnd(t, pos, d) ==
  IF pos < Len(t) /\ d > 0 THEN
    IF At(t, pos) = "[" THEN computedKeyEnd(t, pos + 1, d + 1)
    ELSE IF At(t, pos) = "]" THEN computedKeyEnd(t, pos + 1, d - 1)
    ELSE computedKeyEnd(t, pos + 1, d)
  ELSE pos

ColonAt(t, pos) == At(t, pos) = ":" /\ At(t, pos + 1) # ":"

\* the computed-key branch, at the position the earlier branches left
computedKey(t, pos) ==
  IF At(t, pos) = "[" THEN
    LET end == computedKeyEnd(t, pos + 1, 1) IN
    IF ColonAt(t, SkipSpace(t, end)) THEN [start |-> pos, end |-> end]
    ELSE NoMatch
  ELSE NoMatch

\* the quoted-key branch, at the position the identifier branch left
quotedKey(t, pos) ==
  IF At(t, pos) = "\"" \/ At(t, pos) = "'" THEN
    LET close == quotedKeyEnd(t, pos + 1, At(t, pos)) IN
    IF close < Len(t) THEN
      LET end == close + 1
          after == SkipSpace(t, end)
      IN IF ColonAt(t, after) THEN [start |-> pos, end |-> end]
         ELSE computedKey(t, after)
    ELSE computedKey(t, close)
  ELSE computedKey(t, pos)

objMatchPropertyKey(t, pos0) ==
  LET pos == SkipSpace(t, pos0) IN
  IF pos >= Len(t) THEN NoMatch
  ELSE IF Test(IdStart, At(t, pos)) THEN
    LET end == NameRunEnd(t, pos, IdChar)
        after == SkipSpace(t, end)
    IN IF ColonAt(t, after) THEN [start |-> pos, end |-> end]
       ELSE quotedKey(t, after)
  ELSE quotedKey(t, pos)

\* braceStack.filter(b => b.isObject).length
RECURSIVE objectCount(_)
objectCount(stack) ==
  IF stack = <<>> THEN 0
  ELSE (IF Head(stack).isObject THEN 1 ELSE 0) + objectCount(Tail(stack))

(***************************************************************************)
(* Input texts.  A text is composed of pieces (tags, braces, quotes, ...)  *)
(* so that nested and malformed markup is reached within small bounds.     *)
(***************************************************************************)
\* markup: whole tags, for nesting
HtmlNestPieces ==
  { <<"<","a",">">>, <<"<","/","a",">">>,
    <<"<","B",">">>, <<"<","/","b",">">> }

\* markup: whole tags, among them a void element and a self-closing tag
HtmlTagPieces ==
  HtmlNestPieces \cup { <<"<","B","r",">">>, <<"<","a","/",">">> }

\* markup: an attribute with a quoted value, an escaped quote,
\* unterminated tag starts, whole tags
HtmlAttrPieces ==
  { <<"<","a"," ","t","=","'">>, <<"'",">">>, <<"\\","'">>,
    <<"<","b">>, <<"<","/","a">>, <<"<","B",">">>, <<"<","/","a",">">> }

\* hybrid: an object literal with a key, a tag, bare braces
JsxBracePieces ==
  { <<"=","{","k",":">>, <<"<","a",">">>, <<"{">>, <<"}">> }

\* hybrid: tags, closing tags, braces, a key, a string, comments
JsxFragPieces ==
  { <<"<","a",">">>, <<"<","/","a",">">>, <<"<","/","A",">">>,
    <<"<","a","/",">">>, <<"=","{">>, <<"{">>, <<"}">>, <<"k",":">>,
    <<"'">>, <<"/","*">>, <<"/","/">> }

\* object: braces, a key, a string, comments, a slash
ObjFragPieces ==
  { <<"=","{">>, <<"{">>, <<"}">>, <<"k",":">>,
    <<"'">>, <<"/","*">>, <<"/","/">>, <<"/">> }

\* the families of documents: the parser, the pieces a text is composed of,
\* the largest number of pieces, the values of the two configuration flags
Families ==
  { [lexer |-> "html", pieces |-> HtmlNestPieces, max |-> MaxNest,
     config |-> {FALSE}],
    [lexer |-> "html", pieces |-> HtmlTagPieces, max |-> MaxHtmlFrag,
     config |-> {FALSE}],
    [lexer |-> "html", pieces |-> HtmlAttrPieces, max |-> MaxHtmlFrag,
     config |-> {FALSE}],
    [lexer |-> "jsx", pieces |-> JsxBracePieces, max |-> MaxBrace,
     config |-> {TRUE}],
    [lexer |-> "jsx", pieces |-> JsxFragPieces, max |-> MaxJsxFrag,
     config |-> BOOLEAN],
    [lexer |-> "obj", pieces |-> ObjFragPieces, max |-> MaxObjFrag,
     config |-> BOOLEAN] }

(***************************************************************************)
(* State                                                                   *)
(***************************************************************************)
VARIABLES
  lexer,                   \* which parser handles the document
  pieces,                  \* how the document text was composed
  text,                    \* document.getText()
  colorizeKeys,            \* config.objectBraces.colorizeKeys
  objectBracesEnabled,     \* config.objectBraces.enabled
  pc,                      \* "idle", "scan" (inside parse), "done"
  tags,                    \* HtmlParser.parse: tags
  tagIdx,                  \* HtmlParser.parse: position of the for loop
  tagStack,                \* HtmlParser.parse / JsxParser.tokenize: tagStack
  ranges,                  \* the ParseResult under construction
  i,                       \* tokenize / findObjectBracesAndKeys: i
  depth,                   \* tokenize: depth
  inJsxExpression,         \* tokenize: inJsxExpression
  jsxExpressionBraceDepth, \* tokenize: jsxExpressionBraceDepth
  objectBraceStack,        \* tokenize: objectBraceStack
  tokens,                  \* tokenize: tokens
  braceStack,              \* findObjectBracesAndKeys: braceStack
  braces,                  \* findObjectBracesAndKeys: braces
  propertyKeys,            \* findObjectBracesAndKeys: propertyKeys
  lexicalBraces,           \* history: the classification of each brace open
                           \* inside the current JSX expression, innermost last
  calls,                   \* the number of parse calls made so far
  returned,                \* history: the input and the result of each parse
                           \* call that was followed by another
  extPc,                   \* extension: "off" (not modelled), "refresh"
                           \* (updateDecorations is due), "parsing", "ready"
  languageId,              \* editor.document.languageId
  enabled,                 \* config.enabled
  languages,               \* config.languages
  decorationTypes,         \* DecorationManager.decorationTypes, by color
  decorations,             \* the editor's ranges for each decoration type
  timeoutId,               \* DebouncedFunction.timeoutId, 0 for undefined
  wait,                    \* DebouncedFunction.wait
  timers,                  \* the host's timers that are set and not cleared
  now,                     \* the host's clock
  callLog,                 \* history: arguments, time and wait of each call()
  invoked,                 \* history: the runs of the wrapped function
  cancelledUpTo,           \* history: the number of calls made before the
                           \* latest cancel() or dispose()
  activeTextEditor,        \* vscode.window.activeTextEditor, "none" for
                           \* undefined
  version,                 \* the number of text changes of each editor's
                           \* document
  changedActive,           \* history: the version each document reached by
                           \* its latest change made in the active editor
  decorated                \* history: the version of each document at the
                           \* latest updateDecorations of its editor

inputVars == <<lexer, pieces, text, colorizeKeys, objectBracesEnabled>>

htmlVars == <<tags, tagIdx>>

jsxVars == <<depth, inJsxExpression, jsxExpressionBraceDepth,
             objectBraceStack, tokens, lexicalBraces>>

objVars == <<braceStack, braces, propertyKeys>>

\* what lives outside a parser: the extension that calls it
extVars == <<extPc, languageId, enabled, languages, decorationTypes,
            decorations>>

\* the debounced update and the host's timers and clock
debVars == <<timeoutId, wait, timers, now, callLog, invoked, cancelledUpTo>>

\* the editors and their documents
flowVars == <<activeTextEditor, version, changedActive, decorated>>

hostVars == <<calls, returned, extVars, debVars, flowVars>>

\* the editors are not modelled
NoFlow ==
  /\ activeTextEditor = "none"
  /\ version = <<>>
  /\ changedActive = <<>>
  /\ decorated = <<>>

\* no call() has been made on the debounced function
NoDebounce ==
  /\ timeoutId = 0
  /\ timers = {}
  /\ now = 0
  /\ callLog = <<>>
  /\ invoked = <<>>
  /\ cancelledUpTo = 0

vars == <<hostVars, inputVars, pc, htmlVars, tagStack, ranges, i, jsxVars,
          objVars>>

\* the extension has been activated and calls parse for the first time
HostInit ==
  /\ calls = 1
  /\ returned = {}
  /\ extPc = "off"
  /\ languageId = "none"
  /\ enabled = TRUE
  /\ languages = <<>>
  /\ decorationTypes = <<>>
  /\ decorations = <<>>
  /\ wait = 100
  /\ NoDebounce
  /\ NoFlow

\* the state before parse is called, for the documents of the families F
InitOver(F) ==
  /\ \E f \in F :
       \E k \in 0..f.max :
         \E ps \in [1..k -> f.pieces] :
           \E ck \in f.config, ob \in f.config :
             /\ lexer = f.lexer
             /\ pieces = ps
             /\ text = Flatten(ps)
             /\ colorizeKeys = ck
             /\ objectBracesEnabled = ob
  /\ HostInit
  /\ pc = "idle"
  /\ tags = <<>>
  /\ tagIdx = 0
  /\ tagStack = <<>>
  /\ ranges = <<>>
  /\ i = 0
  /\ depth = 0
  /\ inJsxExpression = FALSE
  /\ jsxExpressionBraceDepth = 0
  /\ objectBraceStack = <<>>
  /\ tokens = <<>>
  /\ braceStack = <<>>
  /\ braces = <<>>
  /\ propertyKeys = <<>>
  /\ lexicalBraces = <<>>

Init == InitOver(Families)

(***************************************************************************)
(* HtmlParser.parse                                                        *)
(***************************************************************************)
\* lines 81-85: the tags are found, the stack is empty
HtmlParse ==
  /\ pc = "idle" /\ lexer = "html"
  /\ tags' = findAllTags(text)
  /\ tagIdx' = 0
  /\ tagStack' = <<>>
  /\ ranges' = <<>>
  /\ pc' = "scan"
  /\ UNCHANGED <<hostVars, inputVars, i, jsxVars, objVars>>

\* the tag the for loop is at
CurTag == tags[tagIdx + 1]

InHtmlLoop == pc = "scan" /\ lexer = "html" /\ tagIdx < Len(tags)

\* lines 88-97
HtmlOpenTag ==
  /\ InHtmlLoop /\ CurTag.type = "open"
  /\ LET currentDepth == Len(tagStack) IN
       /\ ranges' = ranges \o createTagRanges(CurTag, currentDepth)
       /\ tagStack' = IF ~IsVoid(CurTag.tagName)
                      THEN Append(tagStack, CurTag.tagName) ELSE tagStack
  /\ tagIdx' = tagIdx + 1
  /\ UNCHANGED <<hostVars, inputVars, pc, tags, i, jsxVars, objVars>>

\* lines 98-101
HtmlSelfCloseTag ==
  /\ InHtmlLoop /\ CurTag.type = "selfClose"
  /\ LET currentDepth == Len(tagStack) IN
       ranges' = ranges \o createTagRanges(CurTag, currentDepth)
  /\ tagIdx' = tagIdx + 1
  /\ UNCHANGED <<hostVars, inputVars, pc, tags, tagStack, i, jsxVars, objVars>>

\* mutant: the closing tag is colored at the depth held before the pop
HtmlCloseTag_DepthBeforePop ==
  /\ InHtmlLoop /\ CurTag.type = "close"
  /\ LET matchIndex == htmlFindMatchingOpenTag(tagStack, CurTag.tagName)
         popped == IF matchIndex # -1 THEN splice(tagStack, matchIndex)
                   ELSE tagStack
         currentDepth == Len(tagStack)
     IN /\ tagStack' = popped
        /\ ranges' = ranges \o createTagRanges(CurTag, currentDepth)
  /\ tagIdx' = tagIdx + 1
  /\ UNCHANGED <<hostVars, inputVars, pc, tags, i, jsxVars, objVars>>

\* lines 102-113
HtmlCloseTag ==
  /\ InHtmlLoop /\ CurTag.type = "close"
  /\ LET matchIndex == htmlFindMatchingOpenTag(tagStack, CurTag.tagName)
         popped == IF matchIndex # -1 THEN splice(tagStack, matchIndex)
                   ELSE tagStack
         currentDepth == Len(popped)
     IN /\ tagStack' = popped
        /\ ranges' = ranges \o createTagRanges(CurTag, currentDepth)
  /\ tagIdx' = tagIdx + 1
  /\ UNCHANGED <<hostVars, inputVars, pc, tags, i, jsxVars, objVars>>

\* line 116
HtmlReturn ==
  /\ pc = "scan" /\ lexer = "html" /\ tagIdx = Len(tags)
  /\ pc' = "done"
  /\ UNCHANGED <<hostVars, inputVars, htmlVars, tagStack, ranges, i, jsxVars, objVars>>

(***************************************************************************)
(* JsxParser.parse and the loop of tokenize, one action per branch         *)
(***************************************************************************)
Token(ty, s, e, d) == [type |-> ty, start |-> s, end |-> e, depth |-> d]

\* lines 47-50 and 63-69
JsxParse ==
  /\ pc = "idle" /\ lexer = "jsx"
  /\ i' = 0
  /\ depth' = 0
  /\ tagStack' = <<>>
  /\ inJsxExpression' = FALSE
  /\ jsxExpressionBraceDepth' = 0
  /\ objectBraceStack' = <<>>
  /\ tokens' = <<>>
  /\ lexicalBraces' = <<>>
  /\ ranges' = <<>>
  /\ pc' = "scan"
  /\ UNCHANGED <<hostVars, inputVars, htmlVars, objVars>>

InJsxLoop == pc = "scan" /\ lexer = "jsx" /\ i < Len(text)

AtLineComment == At(text, i) = "/" /\ i + 1 < Len(text) /\ At(text, i + 1) = "/"

AtBlockComment == At(text, i) = "/" /\ i + 1 < Len(text) /\ At(text, i + 1) = "*"

\* line 464-467
isInsideJsxTag(t, pos) == FALSE

JsxAtString == IsQuote(At(text, i)) /\ ~isInsideJsxTag(text, i)

\* the loop got past the comment and string branches, lines 73-87
JsxPastSkips == InJsxLoop /\ ~AtLineComment /\ ~AtBlockComment /\ ~JsxAtString

\* lines 73-76
JsxSkipLineComment ==
  /\ InJsxLoop /\ AtLineComment
  /\ i' = jsxSkipToEndOfLine(text, i)
  /\ UNCHANGED <<hostVars, inputVars, pc, htmlVars, tagStack, ranges, jsxVars, objVars>>

\* lines 77-80
JsxSkipBlockComment ==
  /\ InJsxLoop /\ AtBlockComment
  /\ i' = jsxSkipBlockComment(text, i)
  /\ UNCHANGED <<hostVars, inputVars, pc, htmlVars, tagStack, ranges, jsxVars, objVars>>

\* lines 84-87
JsxSkipString ==
  /\ InJsxLoop /\ ~AtLineComment /\ ~AtBlockComment /\ JsxAtString
  /\ i' = jsxSkipString(text, i, At(text, i))
  /\ UNCHANGED <<hostVars, inputVars, pc, htmlVars, tagStack, ranges, jsxVars, objVars>>

\* lines 91-106
JsxExprOpenBrace ==
  /\ JsxPastSkips /\ inJsxExpression /\ At(text, i) = "{"
  /\ LET isObject == objectBracesEnabled /\ jsxIsObjectContext(text, i) IN
       /\ objectBraceStack' = IF isObject THEN Append(objectBraceStack, depth)
                              ELSE objectBraceStack
       /\ tokens' = IF isObject
                    THEN Append(tokens, Token("ObjectBrace", i, i + 1, depth))
                    ELSE tokens
       /\ depth' = IF isObject THEN depth + 1 ELSE depth
       /\ lexicalBraces' = Append(lexicalBraces, isObject)
  /\ jsxExpressionBraceDepth' = jsxExpressionBraceDepth + 1
  /\ i' = i + 1
  /\ UNCHANGED <<hostVars, inputVars, pc, htmlVars, tagStack, ranges, inJsxExpression,
                 objVars>>

\* mutant: closing an object brace pops its frame and keeps depth
JsxExprCloseBrace_KeepsDepth ==
  /\ JsxPastSkips /\ inJsxExpression /\ At(text, i) = "}"
  /\ jsxExpressionBraceDepth' = jsxExpressionBraceDepth - 1
  /\ IF jsxExpressionBraceDepth - 1 = 0 THEN
       /\ inJsxExpression' = FALSE
       /\ tokens' = Append(tokens, Token("ExpressionEnd", i, i + 1, depth - 1))
       /\ UNCHANGED <<objectBraceStack, depth>>
     ELSE IF Len(objectBraceStack) > 0 THEN
       /\ objectBraceStack' = Front(objectBraceStack)
       /\ depth' = depth
       /\ tokens' = Append(tokens,
                      Token("ObjectBrace", i, i + 1, Last(objectBraceStack)))
       /\ UNCHANGED inJsxExpression
     ELSE UNCHANGED <<inJsxExpression, tokens, objectBraceStack, depth>>
  /\ lexicalBraces' = IF lexicalBraces = <<>> THEN <<>> ELSE Front(lexicalBraces)
  /\ i' = i + 1
  /\ UNCHANGED <<hostVars, inputVars, pc, htmlVars, tagStack, ranges, objVars>>

\* lines 108-133
JsxExprCloseBrace ==
  /\ JsxPastSkips /\ inJsxExpression /\ At(text, i) = "}"
  /\ jsxExpressionBraceDepth' = jsxExpressionBraceDepth - 1
  /\ IF jsxExpressionBraceDepth - 1 = 0 THEN
       /\ inJsxExpression' = FALSE
       /\ tokens' = Append(tokens, Token("ExpressionEnd", i, i + 1, depth - 1))
       /\ UNCHANGED <<objectBraceStack, depth>>
     ELSE IF Len(objectBraceStack) > 0 THEN
       /\ objectBraceStack' = Front(objectBraceStack)
       /\ depth' = depth - 1
       /\ tokens' = Append(tokens,
                      Token("ObjectBrace", i, i + 1, Last(objectBraceStack)))
       /\ UNCHANGED inJsxExpression
     ELSE UNCHANGED <<inJsxExpression, tokens, objectBraceStack, depth>>
  /\ lexicalBraces' = IF lexicalBraces = <<>> THEN <<>> ELSE Front(lexicalBraces)
  /\ i' = i + 1
  /\ UNCHANGED <<hostVars, inputVars, pc, htmlVars, tagStack, ranges, objVars>>

JsxExprKeyFound ==
  /\ colorizeKeys /\ Len(objectBraceStack) > 0
  /\ jsxMatchPropertyKey(text, i) # NoMatch

\* lines 136-148
JsxExprPropertyKey ==
  /\ JsxPastSkips /\ inJsxExpression /\ At(text, i) \notin {"{", "}"}
  /\ JsxExprKeyFound
  /\ LET keyMatch == jsxMatchPropertyKey(text, i) IN
       /\ tokens' = Append(tokens,
            Token("PropertyKey", keyMatch.start, keyMatch.end, depth - 1))
       /\ i' = keyMatch.end
  /\ UNCHANGED <<hostVars, inputVars, pc, htmlVars, tagStack, ranges, depth,
                 inJsxExpression, jsxExpressionBraceDepth, objectBraceStack,
                 lexicalBraces, objVars>>

\* lines 150-157
JsxExprAdvance ==
  /\ JsxPastSkips /\ inJsxExpression /\ At(text, i) \notin {"{", "}"}
  /\ ~JsxExprKeyFound
  /\ i' = IF IsQuote(At(text, i)) THEN jsxSkipString(text, i, At(text, i))
          ELSE i + 1
  /\ UNCHANGED <<hostVars, inputVars, pc, htmlVars, tagStack, ranges, jsxVars, objVars>>

\* mutant: tags are read inside a JSX expression too
JsxInMarkup_AlsoInExpression == JsxPastSkips

JsxInMarkup == JsxPastSkips /\ ~inJsxExpression

\* lines 161-165: a closing tag is parsed at i
JsxCloseTagAt ==
  At(text, i) = "<" /\ At(text, i + 1) = "/" /\ parseClosingTag(text, i) # NoTag

\* lines 161 and 205-206: an opening tag is parsed at i
JsxOpenTagAt ==
  At(text, i) = "<" /\ ~JsxCloseTagAt /\ parseOpeningTag(text, i) # NoTag

\* mutant: a closing tag that matches nothing pops the innermost open tag
JsxCloseTag_PopsOnMiss ==
  /\ JsxInMarkup /\ JsxCloseTagAt
  /\ LET closeTag == parseClosingTag(text, i)
         found == jsxFindMatchingOpenTag(tagStack, closeTag.tagName)
         matchIndex == IF found = -1 /\ tagStack # <<>>
                       THEN Len(tagStack) - 1 ELSE found
         poppedCount == Len(tagStack) - matchIndex
         newDepth == IF matchIndex # -1 THEN depth - poppedCount ELSE depth
     IN /\ tagStack' = IF matchIndex # -1 THEN splice(tagStack, matchIndex)
                       ELSE tagStack
        /\ depth' = newDepth
        /\ tokens' = tokens \o
             << Token("JsxClose", i, i + 2, newDepth),
                Token("JsxClose", closeTag.nameStart, closeTag.nameEnd, newDepth),
                Token("JsxClose", closeTag.end - 1, closeTag.end, newDepth) >>
        /\ i' = closeTag.end
  /\ UNCHANGED <<hostVars, inputVars, pc, htmlVars, ranges, inJsxExpression,
                 jsxExpressionBraceDepth, objectBraceStack, lexicalBraces,
                 objVars>>

\* lines 163-201
JsxCloseTag ==
  /\ JsxInMarkup /\ JsxCloseTagAt
  /\ LET closeTag == parseClosingTag(text, i)
         matchIndex == jsxFindMatchingOpenTag(tagStack, closeTag.tagName)
         poppedCount == Len(tagStack) - matchIndex
         newDepth == IF matchIndex # -1 THEN depth - poppedCount ELSE depth
     IN /\ tagStack' = IF matchIndex # -1 THEN splice(tagStack, matchIndex)
                       ELSE tagStack
        /\ depth' = newDepth
        /\ tokens' = tokens \o
             << Token("JsxClose", i, i + 2, newDepth),
                Token("JsxClose", closeTag.nameStart, closeTag.nameEnd, newDepth),
                Token("JsxClose", closeTag.end - 1, closeTag.end, newDepth) >>
        /\ i' = closeTag.end
  /\ UNCHANGED <<hostVars, inputVars, pc, htmlVars, ranges, inJsxExpression,
                 jsxExpressionBraceDepth, objectBraceStack, lexicalBraces,
                 objVars>>

\* mutant: the tag name is emitted before the opening bracket
JsxOpenTag_BracketFirst ==
  /\ JsxInMarkup /\ JsxOpenTagAt
  /\ LET openTag == parseOpeningTag(text, i)
         currentDepth == depth
     IN /\ tokens' = tokens \o
             << Token("JsxOpenStart", openTag.nameStart, openTag.nameEnd,
                      currentDepth),
                Token("JsxOpenStart", i, i + 1, currentDepth),
                IF openTag.selfClosing
                THEN Token("JsxSelfClose", openTag.end - 2, openTag.end,
                           currentDepth)
                ELSE Token("JsxOpenEnd", openTag.end - 1, openTag.end,
                           currentDepth) >>
        /\ tagStack' = IF openTag.selfClosing THEN tagStack
                       ELSE Append(tagStack, openTag.tagName)
        /\ depth' = IF openTag.selfClosing THEN depth ELSE depth + 1
        /\ i' = openTag.end
  /\ UNCHANGED <<hostVars, inputVars, pc, htmlVars, ranges, inJsxExpression,
                 jsxExpressionBraceDepth, objectBraceStack, lexicalBraces,
                 objVars>>

\* mutant: a self-closing tag is pushed like an opening tag
JsxOpenTag_AlwaysPushes ==
  /\ JsxInMarkup /\ JsxOpenTagAt
  /\ LET openTag == parseOpeningTag(text, i)
         currentDepth == depth
     IN /\ tokens' = tokens \o
             << Token("JsxOpenStart", i, i + 1, currentDepth),
                Token("JsxOpenStart", openTag.nameStart, openTag.nameEnd,
                      currentDepth),
                IF openTag.selfClosing
                THEN Token("JsxSelfClose", openTag.end - 2, openTag.end,
                           currentDepth)
                ELSE Token("JsxOpenEnd", openTag.end - 1, openTag.end,
                           currentDepth) >>
        /\ tagStack' = Append(tagStack, openTag.tagName)
        /\ depth' = depth + 1
        /\ i' = openTag.end
  /\ UNCHANGED <<hostVars, inputVars, pc, htmlVars, ranges, inJsxExpression,
                 jsxExpressionBraceDepth, objectBraceStack, lexicalBraces,
                 objVars>>

\* lines 205-250
JsxOpenTag ==
  /\ JsxInMarkup /\ JsxOpenTagAt
  /\ LET openTag == parseOpeningTag(text, i)
         currentDepth == depth
     IN /\ tokens' = tokens \o
             << Token("JsxOpenStart", i, i + 1, currentDepth),
                Token("JsxOpenStart", openTag.nameStart, openTag.nameEnd,
                      currentDepth),
                IF openTag.selfClosing
                THEN Token("JsxSelfClose", openTag.end - 2, openTag.end,
                           currentDepth)
                ELSE Token("JsxOpenEnd", openTag.end - 1, openTag.end,
                           currentDepth) >>
        /\ tagStack' = IF openTag.selfClosing THEN tagStack
                       ELSE Append(tagStack, openTag.tagName)
        /\ depth' = IF openTag.selfClosing THEN depth ELSE depth + 1
        /\ i' = openTag.end
  /\ UNCHANGED <<hostVars, inputVars, pc, htmlVars, ranges, inJsxExpression,
                 jsxExpressionBraceDepth, objectBraceStack, lexicalBraces,
                 objVars>>

\* the loop got past the tag branches, lines 161-251
JsxPastTags == JsxInMarkup /\ ~JsxCloseTagAt /\ ~JsxOpenTagAt

JsxExprStartAt == At(text, i) = "{" /\ Len(tagStack) > 0

\* lines 254-267
JsxExprStart ==
  /\ JsxPastTags /\ JsxExprStartAt
  /\ inJsxExpression' = TRUE
  /\ jsxExpressionBraceDepth' = 1
  /\ tokens' = Append(tokens, Token("ExpressionStart", i, i + 1, depth - 1))
  /\ lexicalBraces' = <<>>
  /\ i' = i + 1
  /\ UNCHANGED <<hostVars, inputVars, pc, htmlVars, tagStack, ranges, depth,
                 objectBraceStack, objVars>>

\* mutant: the setting objectBraces.enabled is not consulted
JsxPureOpenAt_IgnoresSetting ==
  At(text, i) = "{" /\ Len(tagStack) = 0

JsxPureOpenAt ==
  objectBracesEnabled /\ At(text, i) = "{" /\ Len(tagStack) = 0

\* lines 270-283
JsxPureOpenBrace ==
  /\ JsxPastTags /\ ~JsxExprStartAt /\ JsxPureOpenAt
  /\ LET isObject == jsxIsObjectContext(text, i) IN
       /\ tokens' = IF isObject
                    THEN Append(tokens, Token("ObjectBrace", i, i + 1, depth))
                    ELSE tokens
       /\ objectBraceStack' = IF isObject THEN Append(objectBraceStack, depth)
                              ELSE objectBraceStack
       /\ depth' = IF isObject THEN depth + 1 ELSE depth
  /\ i' = i + 1
  /\ UNCHANGED <<hostVars, inputVars, pc, htmlVars, tagStack, ranges, inJsxExpression,
                 jsxExpressionBraceDepth, lexicalBraces, objVars>>

JsxPureCloseAt ==
  /\ objectBracesEnabled /\ At(text, i) = "}"
  /\ Len(tagStack) = 0 /\ Len(objectBraceStack) > 0

\* mutant: the closing brace is handled without testing that an object
\* brace is open (pop() of the empty stack, depth-- below 0)
JsxPureCloseBrace_NoGuard ==
  /\ JsxPastTags /\ ~JsxExprStartAt /\ ~JsxPureOpenAt
  /\ objectBracesEnabled /\ At(text, i) = "}" /\ Len(tagStack) = 0
  /\ objectBraceStack' = IF objectBraceStack = <<>> THEN <<>>
                         ELSE Front(objectBraceStack)
  /\ depth' = depth - 1
  /\ tokens' = Append(tokens,
                 Token("ObjectBrace", i, i + 1,
                       IF objectBraceStack = <<>> THEN depth - 1
                       ELSE Last(objectBraceStack)))
  /\ i' = i + 1
  /\ UNCHANGED <<hostVars, inputVars, pc, htmlVars, tagStack, ranges, inJsxExpression,
                 jsxExpressionBraceDepth, lexicalBraces, objVars>>

\* lines 285-296
JsxPureCloseBrace ==
  /\ JsxPastTags /\ ~JsxExprStartAt /\ ~JsxPureOpenAt /\ JsxPureCloseAt
  /\ objectBraceStack' = Front(objectBraceStack)
  /\ depth' = depth - 1
  /\ tokens' = Append(tokens,
                 Token("ObjectBrace", i, i + 1, Last(objectBraceStack)))
  /\ i' = i + 1
  /\ UNCHANGED <<hostVars, inputVars, pc, htmlVars, tagStack, ranges, inJsxExpression,
                 jsxExpressionBraceDepth, lexicalBraces, objVars>>

JsxPureKeyFound ==
  /\ colorizeKeys /\ Len(tagStack) = 0 /\ Len(objectBraceStack) > 0
  /\ jsxMatchPropertyKey(text, i) # NoMatch

JsxPastBraces ==
  JsxPastTags /\ ~JsxExprStartAt /\ ~JsxPureOpenAt /\ ~JsxPureCloseAt

\* lines 299-311
JsxPurePropertyKey ==
  /\ JsxPastBraces /\ JsxPureKeyFound
  /\ LET keyMatch == jsxMatchPropertyKey(text, i) IN
       /\ tokens' = Append(tokens,
            Token("PropertyKey", keyMatch.start, keyMatch.end, depth - 1))
       /\ i' = keyMatch.end
  /\ UNCHANGED <<hostVars, inputVars, pc, htmlVars, tagStack, ranges, depth,
                 inJsxExpression, jsxExpressionBraceDepth, objectBraceStack,
                 lexicalBraces, objVars>>

\* line 313
JsxAdvance ==
  /\ JsxPastBraces /\ ~JsxPureKeyFound
  /\ i' = i + 1
  /\ UNCHANGED <<hostVars, inputVars, pc, htmlVars, tagStack, ranges, jsxVars, objVars>>

\* tokenize returns (line 316); parse turns each token into a range (52-56)
JsxReturn ==
  /\ pc = "scan" /\ lexer = "jsx" /\ i >= Len(text)
  /\ ranges' = [k \in 1..Len(tokens) |->
                  ColoredRange(tokens[k].start, tokens[k].end, tokens[k].depth)]
  /\ pc' = "done"
  /\ UNCHANGED <<hostVars, inputVars, htmlVars, tagStack, i, jsxVars, objVars>>

(***************************************************************************)
(* ObjectParser.parse and the loop of findObjectBracesAndKeys              *)
(***************************************************************************)
\* lines 54-56
ObjParseDisabled ==
  /\ pc = "idle" /\ lexer = "obj" /\ ~objectBracesEnabled
  /\ ranges' = <<>>
  /\ pc' = "done"
  /\ UNCHANGED <<hostVars, inputVars, htmlVars, tagStack, i, jsxVars, objVars>>

\* mutant: the brace stack is a field that is not emptied when parse starts
ObjParse_KeepsStack ==
  /\ pc = "idle" /\ lexer = "obj" /\ objectBracesEnabled
  /\ ranges' = <<>>
  /\ braces' = <<>>
  /\ propertyKeys' = <<>>
  /\ i' = 0
  /\ braceStack' = braceStack
  /\ pc' = "scan"
  /\ UNCHANGED <<hostVars, inputVars, htmlVars, tagStack, jsxVars>>

\* lines 58-61 and 84-88
ObjParse ==
  /\ pc = "idle" /\ lexer = "obj" /\ objectBracesEnabled
  /\ ranges' = <<>>
  /\ braces' = <<>>
  /\ propertyKeys' = <<>>
  /\ i' = 0
  /\ braceStack' = <<>>
  /\ pc' = "scan"
  /\ UNCHANGED <<hostVars, inputVars, htmlVars, tagStack, jsxVars>>

InObjLoop == pc = "scan" /\ lexer = "obj" /\ i < Len(text)

\* lines 94-98
ObjSkipLineComment ==
  /\ InObjLoop /\ AtLineComment
  /\ i' = objSkipToEndOfLine(text, i)
  /\ UNCHANGED <<hostVars, inputVars, pc, htmlVars, tagStack, ranges, jsxVars, objVars>>

\* lines 99-103
ObjSkipBlockComment ==
  /\ InObjLoop /\ AtBlockComment
  /\ i' = objSkipBlockComment(text, i)
  /\ UNCHANGED <<hostVars, inputVars, pc, htmlVars, tagStack, ranges, jsxVars, objVars>>

ObjPastComments == InObjLoop /\ ~AtLineComment /\ ~AtBlockComment

\* lines 107-110
ObjSkipString ==
  /\ ObjPastComments /\ IsQuote(At(text, i))
  /\ i' = objSkipString(text, i, At(text, i))
  /\ UNCHANGED <<hostVars, inputVars, pc, htmlVars, tagStack, ranges, jsxVars, objVars>>

ObjAtRegex == At(text, i) = "/" /\ isRegexContext(text, i)

\* lines 113-116
ObjSkipRegex ==
  /\ ObjPastComments /\ ~IsQuote(At(text, i)) /\ ObjAtRegex
  /\ i' = skipRegex(text, i)
  /\ UNCHANGED <<hostVars, inputVars, pc, htmlVars, tagStack, ranges, jsxVars, objVars>>

ObjPastSkips == ObjPastComments /\ ~IsQuote(At(text, i)) /\ ~ObjAtRegex

\* lines 118-130
ObjOpenBrace ==
  /\ ObjPastSkips /\ At(text, i) = "{"
  /\ LET isObject == objIsObjectContext(text, i)
         d == objectCount(braceStack)
     IN /\ braceStack' = Append(braceStack, [isObject |-> isObject, depth |-> d])
        /\ braces' = IF isObject
                     THEN Append(braces, [position |-> i, isObject |-> TRUE,
                                          depth |-> d])
                     ELSE braces
  /\ i' = i + 1
  /\ UNCHANGED <<hostVars, inputVars, pc, htmlVars, tagStack, ranges, jsxVars,
                 propertyKeys>>

\* mutant: the closing brace is colored at the number of object frames
\* open when it is read
ObjCloseBrace_DepthAtClose ==
  /\ ObjPastSkips /\ At(text, i) = "}"
  /\ IF braceStack # <<>> THEN
       LET context == Last(braceStack) IN
         /\ braceStack' = Front(braceStack)
         /\ braces' = IF context.isObject
                      THEN Append(braces, [position |-> i, isObject |-> TRUE,
                                           depth |-> objectCount(braceStack)])
                      ELSE braces
     ELSE UNCHANGED <<braceStack, braces>>
  /\ i' = i + 1
  /\ UNCHANGED <<hostVars, inputVars, pc, htmlVars, tagStack, ranges, jsxVars,
                 propertyKeys>>

\* lines 132-140
ObjCloseBrace ==
  /\ ObjPastSkips /\ At(text, i) = "}"
  /\ IF braceStack # <<>> THEN
       LET context == Last(braceStack) IN
         /\ braceStack' = Front(braceStack)
         /\ braces' = IF context.isObject
                      THEN Append(braces, [position |-> i, isObject |-> TRUE,
                                           depth |-> context.depth])
                      ELSE braces
     ELSE UNCHANGED <<braceStack, braces>>
  /\ i' = i + 1
  /\ UNCHANGED <<hostVars, inputVars, pc, htmlVars, tagStack, ranges, jsxVars,
                 propertyKeys>>

ObjKeyFound ==
  /\ colorizeKeys /\ Len(braceStack) > 0 /\ Last(braceStack).isObject
  /\ objMatchPropertyKey(text, i) # NoMatch

\* lines 143-155
ObjPropertyKey ==
  /\ ObjPastSkips /\ At(text, i) \notin {"{", "}"}
  /\ ObjKeyFound
  /\ LET keyMatch == objMatchPropertyKey(text, i)
         currentDepth == objectCount(braceStack) - 1
     IN /\ propertyKeys' = Append(propertyKeys,
             [start |-> keyMatch.start, end |-> keyMatch.end,
              depth |-> currentDepth])
        /\ i' = keyMatch.end
  /\ UNCHANGED <<hostVars, inputVars, pc, htmlVars, tagStack, ranges, jsxVars,
                 braceStack, braces>>

\* mutant: a character that no branch consumes is not stepped over
ObjAdvance_Stuck ==
  /\ ObjPastSkips /\ At(text, i) \notin {"{", "}"}
  /\ ~ObjKeyFound
  /\ i' = i
  /\ UNCHANGED <<hostVars, inputVars, pc, htmlVars, tagStack, ranges, jsxVars, objVars>>

\* line 157
ObjAdvance ==
  /\ ObjPastSkips /\ At(text, i) \notin {"{", "}"}
  /\ ~ObjKeyFound
  /\ i' = i + 1
  /\ UNCHANGED <<hostVars, inputVars, pc, htmlVars, tagStack, ranges, jsxVars, objVars>>

\* the object braces among b, as ranges (lines 64-68)
RECURSIVE braceRanges(_)
braceRanges(b) ==
  IF b = <<>> THEN <<>>
  ELSE (IF Head(b).isObject
        THEN <<ColoredRange(Head(b).position, Head(b).position + 1,
                            Head(b).depth)>>
        ELSE <<>>) \o braceRanges(Tail(b))

\* findObjectBracesAndKeys returns (line 160); parse builds the ranges (63-77)
ObjReturn ==
  /\ pc = "scan" /\ lexer = "obj" /\ i >= Len(text)
  /\ ranges' = braceRanges(braces) \o
       (IF colorizeKeys
        THEN [k \in 1..Len(propertyKeys) |->
                ColoredRange(propertyKeys[k].start, propertyKeys[k].end,
                             propertyKeys[k].depth)]
        ELSE <<>>)
  /\ pc' = "done"
  /\ UNCHANGED <<hostVars, inputVars, htmlVars, tagStack, i, jsxVars, objVars>>

\* the loop of findObjectBracesAndKeys as a function of the text
\* (lines 90-160): the result of the scan from position p
RECURSIVE objScanFrom(_, _, _, _, _, _)
objScanFrom(t, ck, p, stack, bs, keys) ==
  IF p >= Len(t) THEN [braces |-> bs, propertyKeys |-> keys]
  ELSE IF At(t, p) = "/" /\ p + 1 < Len(t) /\ At(t, p + 1) = "/" THEN
    objScanFrom(t, ck, objSkipToEndOfLine(t, p), stack, bs, keys)
  ELSE IF At(t, p) = "/" /\ p + 1 < Len(t) /\ At(t, p + 1) = "*" THEN
    objScanFrom(t, ck, objSkipBlockComment(t, p), stack, bs, keys)
  ELSE IF IsQuote(At(t, p)) THEN
    objScanFrom(t, ck, objSkipString(t, p, At(t, p)), stack, bs, keys)
  ELSE IF At(t, p) = "/" /\ isRegexContext(t, p) THEN
    objScanFrom(t, ck, skipRegex(t, p), stack, bs, keys)
  ELSE IF At(t, p) = "{" THEN
    LET isObject == objIsObjectContext(t, p)
        d == objectCount(stack)
    IN objScanFrom(t, ck, p + 1,
                   Append(stack, [isObject |-> isObject, depth |-> d]),
                   IF isObject
                   THEN Append(bs, [position |-> p, isObject |-> TRUE,
                                    depth |-> d])
                   ELSE bs,
                   keys)
  ELSE IF At(t, p) = "}" THEN
    IF stack # <<>> THEN
      LET context == Last(stack) IN
        objScanFrom(t, ck, p + 1, Front(stack),
                    IF context.isObject
                    THEN Append(bs, [position |-> p, isObject |-> TRUE,
                                     depth |-> context.depth])
                    ELSE bs,
                    keys)
    ELSE objScanFrom(t, ck, p + 1, stack, bs, keys)
  ELSE IF /\ ck /\ Len(stack) > 0 /\ Last(stack).isObject
          /\ objMatchPropertyKey(t, p) # NoMatch THEN
    LET keyMatch == objMatchPropertyKey(t, p) IN
      objScanFrom(t, ck, keyMatch.end, stack, bs,
                  Append(keys, [start |-> keyMatch.start,
                                end |-> keyMatch.end,
                                depth |-> objectCount(stack) - 1]))
  ELSE objScanFrom(t, ck, p + 1, stack, bs, keys)

\* findObjectBracesAndKeys (lines 84-161), with the setting colorizeKeys
findObjectBracesAndKeys(t, ck) == objScanFrom(t, ck, 0, <<>>, <<>>, <<>>)

(***************************************************************************)
(* Specification                                                           *)
(***************************************************************************)
Next ==
  \/ HtmlParse
  \/ HtmlOpenTag
  \/ HtmlSelfCloseTag
  \/ HtmlCloseTag
  \/ HtmlReturn
  \/ JsxParse
  \/ JsxSkipLineComment
  \/ JsxSkipBlockComment
  \/ JsxSkipString
  \/ JsxExprOpenBrace
  \/ JsxExprCloseBrace
  \/ JsxExprPropertyKey
  \/ JsxExprAdvance
  \/ JsxCloseTag
  \/ JsxOpenTag
  \/ JsxExprStart
  \/ JsxPureOpenBrace
  \/ JsxPureCloseBrace
  \/ JsxPurePropertyKey
  \/ JsxAdvance
  \/ JsxReturn
  \/ ObjParseDisabled
  \/ ObjParse
  \/ ObjSkipLineComment
  \/ ObjSkipBlockComment
  \/ ObjSkipString
  \/ ObjSkipRegex
  \/ ObjOpenBrace
  \/ ObjCloseBrace
  \/ ObjPropertyKey
  \/ ObjAdvance
  \/ ObjReturn

Spec == Init /\ [][Next]_vars

(***************************************************************************)
(* Reference notions used to state the properties                          *)
(***************************************************************************)
Letters(p, a, b) == \A k \in a..b : p[k] \in Alpha

\* a piece that is a whole opening tag <name>
IsOpenPiece(p) ==
  Len(p) >= 3 /\ p[1] = "<" /\ p[Len(p)] = ">" /\ Letters(p, 2, Len(p) - 1)

\* a piece that is a whole closing tag </name>
IsClosePiece(p) ==
  /\ Len(p) >= 4 /\ p[1] = "<" /\ p[2] = "/" /\ p[Len(p)] = ">"
  /\ Letters(p, 3, Len(p) - 1)

\* a piece that is a whole self-closing tag <name/>
IsSelfClosePiece(p) ==
  /\ Len(p) >= 4 /\ p[1] = "<" /\ p[Len(p) - 1] = "/" /\ p[Len(p)] = ">"
  /\ Letters(p, 2, Len(p) - 2)

PieceName(p) ==
  IF IsClosePiece(p) THEN SubSeq(p, 3, Len(p) - 1)
  ELSE IF IsSelfClosePiece(p) THEN SubSeq(p, 2, Len(p) - 2)
  ELSE SubSeq(p, 2, Len(p) - 1)

IsVoidPiece(p) == IsOpenPiece(p) /\ toLowerCase(PieceName(p)) \in VOID_ELEMENTS

\* a void element or a self-closing tag
IsInertPiece(p) == IsVoidPiece(p) \/ IsSelfClosePiece(p)

\* properly nested opening and closing tags, names compared ignoring case
RECURSIVE Balanced(_, _)
Balanced(ps, open) ==
  IF ps = <<>> THEN open = <<>>
  ELSE IF IsClosePiece(Head(ps)) THEN
    /\ open # <<>>
    /\ toLowerCase(Last(open)) = toLowerCase(PieceName(Head(ps)))
    /\ Balanced(Tail(ps), Front(open))
  ELSE Balanced(Tail(ps), Append(open, PieceName(Head(ps))))

\* a well-formed nesting of non-void tags
WellFormedNesting(ps) ==
  /\ \A k \in 1..Len(ps) :
       (IsOpenPiece(ps[k]) /\ ~IsVoidPiece(ps[k])) \/ IsClosePiece(ps[k])
  /\ Balanced(ps, <<>>)

\* the pieces of ps that are not inert
RECURSIVE WithoutInert(_)
WithoutInert(ps) ==
  IF ps = <<>> THEN <<>>
  ELSE (IF IsInertPiece(Head(ps)) THEN <<>> ELSE <<Head(ps)>>)
       \o WithoutInert(Tail(ps))

\* the number of elements open before piece k: opening tags minus closing
\* tags among the pieces before it, inert pieces not counted
RECURSIVE OpenBefore(_, _)
OpenBefore(ps, k) ==
  IF k <= 1 THEN 0
  ELSE OpenBefore(ps, k - 1) +
       (IF IsClosePiece(ps[k - 1]) THEN -1
        ELSE IF IsInertPiece(ps[k - 1]) THEN 0 ELSE 1)

\* the nesting level (1-based) of the tag that is piece k, less one
LevelDepth(ps, k) ==
  IF IsClosePiece(ps[k]) THEN OpenBefore(ps, k) - 1 ELSE OpenBefore(ps, k)

\* the three spans of the whole tag that is piece k, at depth d
PieceSpans(ps, k, d) ==
  LET off == OffsetOf(ps, k)
      len == Len(ps[k])
  IN IF IsClosePiece(ps[k]) THEN
       << ColoredRange(off, off + 2, d), ColoredRange(off + 2, off + len - 1, d),
          ColoredRange(off + len - 1, off + len, d) >>
     ELSE IF IsSelfClosePiece(ps[k]) THEN
       << ColoredRange(off, off + 1, d), ColoredRange(off + 1, off + len - 2, d),
          ColoredRange(off + len - 2, off + len, d) >>
     ELSE
       << ColoredRange(off, off + 1, d), ColoredRange(off + 1, off + len - 1, d),
          ColoredRange(off + len - 1, off + len, d) >>

\* the spans of a text of whole tags, each tag at its level less one
RECURSIVE LevelSpans(_, _)
LevelSpans(ps, k) ==
  IF k > Len(ps) THEN <<>>
  ELSE PieceSpans(ps, k, LevelDepth(ps, k)) \o LevelSpans(ps, k + 1)

Depths(rs) == [k \in 1..Len(rs) |-> rs[k].depth]

\* the ranges the step appended
NewRanges == SubSeq(ranges', Len(ranges) + 1, Len(ranges'))

\* the tokens the step appended
NewTokens == SubSeq(tokens', Len(tokens) + 1, Len(tokens'))

\* findTagEnd's view of the text from position from: the quote character
\* that encloses position k, "" when k is outside every quoted value
RECURSIVE EnclosingQuote(_, _, _)
EnclosingQuote(t, from, k) ==
  IF k <= from THEN ""
  ELSE LET before == EnclosingQuote(t, from, k - 1)
           c == At(t, k - 1)
       IN IF before # ""
          THEN (IF c = before /\ At(t, k - 2) # "\\" THEN "" ELSE before)
          ELSE (IF c = "\"" \/ c = "'" THEN c ELSE "")

\* position q lies inside a quoted attribute value of tag tg
InQuotedValue(t, tg, q) ==
  /\ tg.nameEnd <= q /\ q < tg.bracketEnd
  /\ EnclosingQuote(t, tg.nameEnd, q) # ""

\* the end of the name of the tag start at q
StartNameEnd(t, q) ==
  NameRunEnd(t, IF At(t, q + 1) = "/" THEN q + 2 ELSE q + 1, HtmlNameChar)

\* the tag start at q reaches a ">" outside quotes before the end of the
\* text and before any "<" outside quotes
Terminated(t, q) ==
  LET ne == StartNameEnd(t, q) IN
  \E e \in ne..Len(t) - 1 :
    /\ At(t, e) = ">" /\ EnclosingQuote(t, ne, e) = ""
    /\ \A k \in ne..e - 1 :
         At(t, k) \in {"<", ">"} => EnclosingQuote(t, ne, k) # ""

(***************************************************************************)
(* C1  Balanced markup depth law: for a well-formed nesting of non-void    *)
(* tags the markup lexer returns, for the opening tag at nesting level n,  *)
(* three spans of depth n-1, for its closing tag three spans of the same   *)
(* depth, and ends with an empty tag stack.                                *)
(***************************************************************************)
C1_BalancedDepthLaw ==
  (lexer = "html" /\ pc = "done" /\ WellFormedNesting(pieces)) =>
     /\ ranges = LevelSpans(pieces, 1)
     /\ tagStack = <<>>

\* a finished run over three levels of nesting
C1_Witness ==
  /\ lexer = "html" /\ pc = "done" /\ WellFormedNesting(pieces)
  /\ Len(pieces) = 6
  /\ \E k \in 1..Len(ranges) : ranges[k].depth = 2

(***************************************************************************)
(* C2  A closing tag of the markup lexer with a match: the stack is        *)
(* truncated to the index of the nearest (topmost) entry whose name equals *)
(* the tag's name ignoring case, and the tag's three spans carry that      *)
(* index as depth.                                                         *)
(***************************************************************************)
\* the indices (0-based) of the stack entries the current closing tag names
HtmlMatches ==
  {k \in 0..Len(tagStack) - 1 :
     toLowerCase(tagStack[k + 1]) = toLowerCase(CurTag.tagName)}

Topmost(S) == CHOOSE k \in S : \A h \in S : h <= k

C2_Step ==
  (InHtmlLoop /\ CurTag.type = "close" /\ HtmlMatches # {}) =>
     LET idx == Topmost(HtmlMatches) IN
       /\ tagStack' = SubSeq(tagStack, 1, idx)
       /\ Len(NewRanges) = 3
       /\ \A k \in 1..3 : NewRanges[k].depth = idx

C2_CloseTruncatesToMatch == [][C2_Step]_vars

\* <B><a></b> : the closing tag has removed its match and the frame above
C2_Witness ==
  /\ lexer = "html" /\ pc = "scan" /\ tagIdx = 3
  /\ tags[1].type = "open" /\ tags[1].tagName = <<"B">>
  /\ tags[2].type = "open" /\ tags[2].tagName = <<"a">>
  /\ tags[3].type = "close" /\ tags[3].tagName = <<"b">>
  /\ tagStack = <<>>
  /\ Len(ranges) = 9 /\ ranges[9].depth = 0

(***************************************************************************)
(* C3  A closing tag that matches no entry of the tag stack leaves the tag *)
(* stack (and, in the hybrid lexer, the depth counter and the object-brace *)
(* stack) as they were and is emitted at the unchanged depth.              *)
(***************************************************************************)
JsxUnmatchedClose ==
  /\ JsxInMarkup /\ JsxCloseTagAt
  /\ \A k \in 1..Len(tagStack) : tagStack[k] # parseClosingTag(text, i).tagName

C3_HtmlStep ==
  (InHtmlLoop /\ CurTag.type = "close" /\ HtmlMatches = {}) =>
     /\ tagStack' = tagStack
     /\ Len(NewRanges) = 3
     /\ \A k \in 1..3 : NewRanges[k].depth = Len(tagStack)

C3_JsxStep ==
  JsxUnmatchedClose =>
     /\ tagStack' = tagStack /\ depth' = depth
     /\ objectBraceStack' = objectBraceStack
     /\ Len(NewTokens) = 3
     /\ \A k \in 1..3 : NewTokens[k].depth = depth

\* the claim as written: on an empty tag stack the stray closing tag is
\* emitted at depth 0, in both lexers
C3_StrayAtDepthZero ==
  ((JsxUnmatchedClose \/ (InHtmlLoop /\ CurTag.type = "close"))
     /\ tagStack = <<>>) =>
     /\ tagStack' = <<>>
     /\ lexer = "html" => \A k \in 1..Len(NewRanges) : NewRanges[k].depth = 0
     /\ lexer = "jsx" => \A k \in 1..Len(NewTokens) : NewTokens[k].depth = 0

C3_Original == [][C3_HtmlStep /\ C3_JsxStep /\ C3_StrayAtDepthZero]_vars

\* amended: on an empty tag stack the hybrid lexer emits the stray closing
\* tag at the number of open object braces, the markup lexer at depth 0
C3_StrayOnEmptyStack ==
  ((JsxUnmatchedClose \/ (InHtmlLoop /\ CurTag.type = "close"))
     /\ tagStack = <<>>) =>
     /\ tagStack' = <<>>
     /\ lexer = "html" => \A k \in 1..Len(NewRanges) : NewRanges[k].depth = 0
     /\ lexer = "jsx" =>
          \A k \in 1..Len(NewTokens) :
             NewTokens[k].depth = Len(objectBraceStack)

C3_UnmatchedCloseNoEffect ==
  [][C3_HtmlStep /\ C3_JsxStep /\ C3_StrayOnEmptyStack]_vars

\* the hybrid lexer has emitted a stray closing tag inside an open object
\* brace: no tag was ever opened, the tag is at depth 1
C3_Witness ==
  /\ lexer = "jsx" /\ pc = "scan" /\ Len(tokens) >= 3
  /\ Last(tokens).type = "JsxClose" /\ Last(tokens).end = i
  /\ \A k \in 1..Len(tokens) : tokens[k].type # "JsxOpenStart"
  /\ tagStack = <<>> /\ Len(objectBraceStack) = 1
  /\ Last(tokens).depth = 1 /\ depth = 1

(***************************************************************************)
(* C4  Void/self-closing no-op law of the markup lexer: a void opening tag *)
(* (name compared ignoring case) and a self-closing tag are colored at the *)
(* current stack length and leave the stack unchanged; inserted between    *)
(* the tags of well-formed markup they change the depth of no other tag.   *)
(***************************************************************************)
C4_Step ==
  (InHtmlLoop /\ (CurTag.type = "selfClose" \/
                  (CurTag.type = "open" /\
                   toLowerCase(CurTag.tagName) \in VOID_ELEMENTS))) =>
     /\ tagStack' = tagStack
     /\ Len(NewRanges) = 3
     /\ \A k \in 1..3 : NewRanges[k].depth = Len(tagStack)

\* the text is well-formed markup with inert tags inserted
InertInserted(ps) ==
  /\ \A k \in 1..Len(ps) :
       IsOpenPiece(ps[k]) \/ IsClosePiece(ps[k]) \/ IsSelfClosePiece(ps[k])
  /\ WellFormedNesting(WithoutInert(ps))

\* the depths of the spans of the pieces that are not inert
RECURSIVE OtherDepths(_, _, _)
OtherDepths(ps, rs, k) ==
  IF k > Len(ps) THEN <<>>
  ELSE (IF IsInertPiece(ps[k]) THEN <<>>
        ELSE << rs[3 * k - 2].depth, rs[3 * k - 1].depth, rs[3 * k].depth >>)
       \o OtherDepths(ps, rs, k + 1)

C4_Insertion ==
  (lexer = "html" /\ pc = "done" /\ InertInserted(pieces)) =>
     /\ Len(ranges) = 3 * Len(pieces)
     /\ \A k \in 1..Len(ranges) :
          ranges[k].start = LevelSpans(pieces, 1)[k].start
     /\ OtherDepths(pieces, ranges, 1)
          = Depths(LevelSpans(WithoutInert(pieces), 1))
     /\ tagStack = <<>>

C4_VoidSelfCloseNoOp == [][C4_Step]_vars /\ []C4_Insertion

\* <a><Br></a> and the like: a finished run over well-formed markup with
\* a void element inside an open element
C4_Witness ==
  /\ lexer = "html" /\ pc = "done" /\ InertInserted(pieces)
  /\ \E k \in 2..Len(pieces) :
       /\ IsVoidPiece(pieces[k]) /\ PieceName(pieces[k]) # toLowerCase(PieceName(pieces[k]))
       /\ OpenBefore(pieces, k) = 1
       /\ ranges[3 * k].depth = 1
       /\ k < Len(pieces)

(***************************************************************************)
(* C5  Tag discovery of the markup lexer: no tag is produced from a "<"    *)
(* that lies inside a quoted attribute value of a recognized tag.          *)
(***************************************************************************)
C5_NoTagFromQuotedValue ==
  (lexer = "html" /\ pc # "idle") =>
     \A a, b \in 1..Len(tags) :
        ~InQuotedValue(text, tags[a], tags[b].bracketStart)

(***************************************************************************)
(* C6  Malformed-tag recovery of the markup lexer: a tag start that        *)
(* reaches the end of the text or another "<" outside quotes before a ">"  *)
(* yields no tag (no span, no stack change), and every tag start that is   *)
(* terminated yields one, also when it begins after, or at the "<" that    *)
(* interrupted, a failed start.                                            *)
(***************************************************************************)
TagStarts == {q \in 0..Len(text) - 1 : TagStartAt(text, q)}

C6_MalformedTagRecovery ==
  (lexer = "html" /\ pc # "idle") =>
     /\ \A q \in TagStarts :
          Terminated(text, q) <=> \E k \in 1..Len(tags) : tags[k].bracketStart = q
     /\ \A k \in 1..Len(tags) : tags[k].bracketStart \in TagStarts
     /\ \A k \in 1..Len(tags) - 1 :
          tags[k].bracketStart < tags[k + 1].bracketStart
     /\ \A q \in TagStarts :
          ~Terminated(text, q) =>
             \A k \in 1..Len(ranges) : ranges[k].start # q
     /\ pc = "done" => Len(ranges) = 3 * Len(tags)

\* a failed start, and a tag recognized at the "<" that interrupted it
C6_Witness ==
  /\ lexer = "html" /\ pc = "done"
  /\ \E q \in TagStarts :
       /\ ~Terminated(text, q)
       /\ \E k \in 1..Len(tags) :
            /\ tags[k].bracketStart = StartNameEnd(text, q)
            /\ \E r \in 1..Len(ranges) : ranges[r].start = tags[k].bracketStart

(***************************************************************************)
(* C7  No depth is negative: every span of the three lexers has depth >= 0 *)
(* and the depth counter of the hybrid lexer is never negative, for every  *)
(* text and configuration.                                                 *)
(***************************************************************************)
C7_DepthsNonNegative ==
  /\ depth >= 0
  /\ \A k \in 1..Len(ranges) : ranges[k].depth >= 0
  /\ \A k \in 1..Len(tokens) : tokens[k].depth >= 0
  /\ \A k \in 1..Len(braces) : braces[k].depth >= 0
  /\ \A k \in 1..Len(propertyKeys) : propertyKeys[k].depth >= 0
  /\ \A k \in 1..Len(objectBraceStack) : objectBraceStack[k] >= 0
  /\ \A k \in 1..Len(braceStack) : braceStack[k].depth >= 0

\* the hybrid lexer has emitted an expression boundary and a property key,
\* both at depth - 1 = 0
C7_Witness ==
  /\ lexer = "jsx" /\ pc = "done"
  /\ \E k \in 1..Len(ranges) :
       tokens[k].type = "ExpressionEnd" /\ ranges[k].depth = 0
  /\ \E k \in 1..Len(ranges) :
       tokens[k].type = "PropertyKey" /\ ranges[k].depth = 0

(***************************************************************************)
(* C8  Within the result of one lexer invocation no two spans have the     *)
(* same (start, end) offsets and different depths.                         *)
(***************************************************************************)
C8_NoContradictoryDepths ==
  \A a, b \in 1..Len(ranges) :
     (ranges[a].start = ranges[b].start /\ ranges[a].end = ranges[b].end)
        => ranges[a].depth = ranges[b].depth

(***************************************************************************)
(* C9  Hybrid lexer: the "}" that ends a JSX expression container is       *)
(* emitted at the same depth as the "{" that opened it.                    *)
(***************************************************************************)
\* the index of the expression start of the expression that token k ends
StartOf(k) ==
  CHOOSE s \in 1..k - 1 :
    /\ tokens[s].type = "ExpressionStart"
    /\ \A r \in s + 1..k - 1 : tokens[r].type # "ExpressionStart"

C9_ExpressionEndAtStartDepth ==
  lexer = "jsx" =>
     \A k \in 1..Len(tokens) :
        tokens[k].type = "ExpressionEnd" =>
           tokens[k].depth = tokens[StartOf(k)].depth

(***************************************************************************)
(* C10  Hybrid lexer inside a JSX expression: a "}" whose matching "{" was *)
(* classified as an object literal pops that frame, decrements depth and   *)
(* emits a brace span; a "}" whose matching "{" was not so classified (and *)
(* which does not end the expression) emits nothing and leaves depth and   *)
(* the object-brace stack unchanged.                                       *)
(***************************************************************************)
C10_Step ==
  (JsxPastSkips /\ inJsxExpression /\ At(text, i) = "}"
     /\ jsxExpressionBraceDepth > 1) =>
     IF Last(lexicalBraces) THEN
       /\ objectBraceStack' = Front(objectBraceStack)
       /\ depth' = depth - 1
       /\ Len(NewTokens) = 1
       /\ NewTokens[1].type = "ObjectBrace"
       /\ NewTokens[1].depth = Last(objectBraceStack)
     ELSE
       /\ tokens' = tokens
       /\ depth' = depth
       /\ objectBraceStack' = objectBraceStack

C10_CloseBraceFollowsItsOpen == [][C10_Step]_vars

(***************************************************************************)
(* C11  Hybrid lexer property keys: a key span is emitted only while key   *)
(* coloring is enabled and an object-literal frame is open, and its depth  *)
(* is the depth recorded for the innermost open object-literal frame.      *)
(***************************************************************************)
C11_Step ==
  \A k \in 1..Len(NewTokens) :
     NewTokens[k].type = "PropertyKey" =>
        /\ colorizeKeys
        /\ objectBraceStack # <<>>
        /\ NewTokens[k].depth = Last(objectBraceStack)

C11_KeyAtInnermostFrameDepth == [][C11_Step]_vars

(***************************************************************************)
(* Literals: strings, template literals and comments                       *)
(***************************************************************************)
\* the largest number of pieces of a text of LitPieces
MaxLit == 4

\* an object brace, a closing brace, the quotes, an interpolation start, a
\* whole template literal that holds a brace, comment delimiters, a line
\* break and a tag
LitPieces ==
  { <<"=","{">>, <<"}">>, <<Backtick>>, <<"$","{">>,
    <<Backtick,"}",Backtick>>, <<"'">>, <<"/","*">>, <<"*","/">>,
    <<"/","/">>, <<"\n">>, <<"<","a",">">> }

\* one family of each parser that reaches every branch
BaseFamilies ==
  { [lexer |-> "html", pieces |-> HtmlTagPieces, max |-> MaxHtmlFrag,
     config |-> {FALSE}],
    [lexer |-> "jsx", pieces |-> JsxBracePieces, max |-> MaxBrace,
     config |-> {TRUE}],
    [lexer |-> "jsx", pieces |-> JsxFragPieces, max |-> MaxJsxFrag,
     config |-> BOOLEAN],
    [lexer |-> "obj", pieces |-> ObjFragPieces, max |-> MaxObjFrag,
     config |-> BOOLEAN] }

LitFamilies ==
  BaseFamilies \cup
  { [lexer |-> "jsx", pieces |-> LitPieces, max |-> MaxLit, config |-> {TRUE}],
    [lexer |-> "obj", pieces |-> LitPieces, max |-> MaxLit, config |-> {TRUE}] }

LitInit == InitOver(LitFamilies)

LitSpec == LitInit /\ [][Next]_vars

\* The lexical rule of the specification, as a reference.  A line comment
\* runs to the line break, a block comment to its closing delimiter, a
\* quoted string to its unescaped closing quote or the line break, a
\* template literal to its closing backtick, where each interpolation runs
\* to its matching brace and a template literal inside an interpolation is
\* skipped as a whole; what is not terminated runs to the end of the text.
RECURSIVE RefTemplateEnd(_, _)
RECURSIVE RefInterpolationEnd(_, _, _)
\* p is just past the opening backtick
RefTemplateEnd(t, p) ==
  IF p >= Len(t) THEN Len(t)
  ELSE IF t[p + 1] = "\\" THEN RefTemplateEnd(t, p + 2)
  ELSE IF t[p + 1] = Backtick THEN p + 1
  ELSE IF t[p + 1] = "$" /\ p + 1 < Len(t) /\ t[p + 2] = "{"
       THEN RefTemplateEnd(t, RefInterpolationEnd(t, p + 2, 1))
  ELSE RefTemplateEnd(t, p + 1)

\* p is inside an interpolation with d braces open
RefInterpolationEnd(t, p, d) ==
  IF d = 0 THEN p
  ELSE IF p >= Len(t) THEN Len(t)
  ELSE IF t[p + 1] = "{" THEN RefInterpolationEnd(t, p + 1, d + 1)
  ELSE IF t[p + 1] = "}" THEN RefInterpolationEnd(t, p + 1, d - 1)
  ELSE IF t[p + 1] = Backtick
       THEN RefInterpolationEnd(t, RefTemplateEnd(t, p + 1), d)
  ELSE RefInterpolationEnd(t, p + 1, d)

\* whether the template literal, p just past its opening backtick, has its
\* closing backtick
RECURSIVE RefTemplateClosed(_, _)
RefTemplateClosed(t, p) ==
  IF p >= Len(t) THEN FALSE
  ELSE IF t[p + 1] = "\\" THEN RefTemplateClosed(t, p + 2)
  ELSE IF t[p + 1] = Backtick THEN TRUE
  ELSE IF t[p + 1] = "$" /\ p + 1 < Len(t) /\ t[p + 2] = "{"
       THEN RefTemplateClosed(t, RefInterpolationEnd(t, p + 2, 1))
  ELSE RefTemplateClosed(t, p + 1)

\* p is just past the opening quote; the end is the position after the
\* closing quote, or the position of the line break
RECURSIVE RefStringEnd(_, _, _)
RefStringEnd(t, p, quote) ==
  IF p >= Len(t) THEN Len(t)
  ELSE IF t[p + 1] = "\\" THEN RefStringEnd(t, p + 2, quote)
  ELSE IF t[p + 1] = quote THEN p + 1
  ELSE IF t[p + 1] = "\n" THEN p
  ELSE RefStringEnd(t, p + 1, quote)

RECURSIVE RefLineEnd(_, _)
RefLineEnd(t, p) ==
  IF p >= Len(t) \/ t[p + 1] = "\n" THEN Min(p, Len(t)) ELSE RefLineEnd(t, p + 1)

\* p is just past the opening delimiter
RECURSIVE RefBlockCommentEnd(_, _)
RefBlockCommentEnd(t, p) ==
  IF p + 1 >= Len(t) THEN Len(t)
  ELSE IF t[p + 1] = "*" /\ t[p + 2] = "/" THEN p + 2
  ELSE RefBlockCommentEnd(t, p + 1)

RefLineCommentAt(t, p) == p + 1 < Len(t) /\ t[p + 1] = "/" /\ t[p + 2] = "/"

RefBlockCommentAt(t, p) == p + 1 < Len(t) /\ t[p + 1] = "/" /\ t[p + 2] = "*"

RefLiteralAt(t, p) ==
  p < Len(t) /\ (RefLineCommentAt(t, p) \/ RefBlockCommentAt(t, p) \/ IsQuote(t[p + 1]))

\* the end (exclusive) of the literal that starts at p
RefLiteralEnd(t, p) ==
  IF RefLineCommentAt(t, p) THEN RefLineEnd(t, p + 2)
  ELSE IF RefBlockCommentAt(t, p) THEN RefBlockCommentEnd(t, p + 2)
  ELSE IF t[p + 1] = Backtick THEN RefTemplateEnd(t, p + 1)
  ELSE RefStringEnd(t, p + 1, t[p + 1])

\* the positions of the text from p on that lie inside a literal
RECURSIVE RefInside(_, _)
RefInside(t, p) ==
  IF p >= Len(t) THEN {}
  ELSE IF RefLiteralAt(t, p)
       THEN LET e == RefLiteralEnd(t, p) IN
              (p + 1..e - 1) \cup RefInside(t, IF e > p THEN e ELSE p + 1)
  ELSE RefInside(t, p + 1)

InLiteral(t, k) == k \in RefInside(t, 0)

(***************************************************************************)
(* C12  String/comment opacity of the hybrid and the object lexer: a "<",  *)
(* ">", "{", "}" or "/" inside a quoted string, a template literal (its    *)
(* interpolations included), a line comment or a block comment produces no *)
(* span and changes neither the tag stack, the brace stacks nor the depth. *)
(***************************************************************************)
C12_Step ==
  (pc = "scan" /\ lexer \in {"jsx", "obj"} /\ i < Len(text)
     /\ InLiteral(text, i)
     /\ At(text, i) \in {"<", ">", "{", "}", "/"}) =>
     UNCHANGED <<tokens, tagStack, objectBraceStack, depth, inJsxExpression,
                 braceStack, braces, propertyKeys>>

C12_LiteralsAreOpaque == [][C12_Step]_vars

(***************************************************************************)
(* C13  String skipping of the hybrid lexer: skipping a template literal   *)
(* returns the position just after the literal's own closing backtick,     *)
(* each interpolation being skipped to its matching brace and a template   *)
(* literal nested in an interpolation as a whole.                          *)
(***************************************************************************)
C13_Step ==
  (InJsxLoop /\ ~AtLineComment /\ ~AtBlockComment /\ At(text, i) = Backtick) =>
     i' = RefTemplateEnd(text, i + 1)

C13_TemplateSkippedToItsEnd == [][C13_Step]_vars

(***************************************************************************)
(* Brace contexts: what precedes a "{" of the object lexer                 *)
(***************************************************************************)
\* the largest number of pieces of a text of CtxPieces
MaxCtx == 1

\* the token before the brace (or before the parenthesis group): nothing,
\* "=>", an object-context character, return, a block keyword, another token
CtxObjectChars == {"=", ":", "(", "[", ",", "?"}

CtxBlockKeywords ==
  { <<"i","f">>, <<"e","l","s","e">>, <<"f","o","r">>,
    <<"w","h","i","l","e">>, <<"d","o">>,
    <<"s","w","i","t","c","h">>, <<"t","r","y">>,
    <<"c","a","t","c","h">>, <<"f","i","n","a","l","l","y">>,
    <<"w","i","t","h">>, <<"c","l","a","s","s">>,
    <<"f","u","n","c","t","i","o","n">>, <<"a","s","y","n","c">>,
    <<"g","e","t">>, <<"s","e","t">> }

CtxHeads ==
  {<<>>, <<"=", ">">>, KwReturn, <<"x">>, <<";">>}
  \cup {<<c>> : c \in CtxObjectChars}
  \cup CtxBlockKeywords

\* between that token and the brace: white space only
CtxSpaces == {<<>>, <<" ">>, <<"\n">>}

\* between that token and the brace: a parenthesis group
CtxParens ==
  { <<"(","x",")">>, <<" ","(","x",")"," ">>, <<"(","(","x",")",")">>,
    <<"(",")">> }

CtxPiece(h, g) == h \o g \o <<"{">>

CtxPieces == {CtxPiece(h, g) : h \in CtxHeads, g \in CtxSpaces \cup CtxParens}

\* the two texts of the specification's examples
ConstExample ==
  <<"c","o","n","s","t"," ","x"," ","="," ","{","a",":"," ","1","}">>

IfExample ==
  <<"i","f"," ","(","x",")"," ","{"," ","y","(",")",";"," ","}">>

CtxFamilies ==
  BaseFamilies \cup
  { [lexer |-> "obj", pieces |-> CtxPieces, max |-> MaxCtx, config |-> {TRUE}],
    [lexer |-> "obj", pieces |-> {ConstExample, IfExample}, max |-> 1,
     config |-> {TRUE}] }

CtxInit == InitOver(CtxFamilies)

CtxSpec == CtxInit /\ [][Next]_vars

\* the pieces are brace contexts
IsCtxText(ps) == ps # <<>> /\ \A k \in 1..Len(ps) : ps[k] \in CtxPieces

\* the piece whose last character, its brace, is at offset p
CtxPieceAt(ps, p) ==
  CHOOSE k \in 1..Len(ps) : OffsetOf(ps, k) + Len(ps[k]) - 1 = p

CtxHeadOf(piece) ==
  CHOOSE h \in CtxHeads : \E g \in CtxSpaces \cup CtxParens : piece = CtxPiece(h, g)

CtxHasParens(piece) ==
  \E h \in CtxHeads, g \in CtxParens : piece = CtxPiece(h, g)

\* The heuristic table.  atStart is the class of a brace that follows a
\* parenthesis group which nothing precedes.
RefIsObject(ps, k, atStart) ==
  LET h == CtxHeadOf(ps[k]) IN
  IF CtxHasParens(ps[k]) THEN
    IF h \in CtxBlockKeywords THEN FALSE
    ELSE IF h = <<>> /\ k = 1 THEN atStart
    ELSE TRUE
  ELSE h \in {<<"=", ">">>, KwReturn} \cup {<<c>> : c \in CtxObjectChars}

(***************************************************************************)
(* C14  The object lexer classifies a "{" by the nearest preceding token:  *)
(* "=>" or one of = : ( [ , ? gives object; ")" gives block when a block   *)
(* keyword precedes its matching "(" and object otherwise; return gives    *)
(* object; a block keyword, another token or the start of the text gives   *)
(* block.  An object brace is colored, a block brace is not.               *)
(***************************************************************************)
\* the step that reads the brace of a piece classifies it as the table says
C14_StepAs(atStart) ==
  (ObjPastSkips /\ At(text, i) = "{" /\ IsCtxText(pieces)) =>
     LET isObject == RefIsObject(pieces, CtxPieceAt(pieces, i), atStart) IN
       /\ Last(braceStack').isObject = isObject
       /\ Len(braces') = Len(braces) + (IF isObject THEN 1 ELSE 0)
       /\ isObject => Last(braces').position = i

\* the examples: the braces of the first are colored, of the second nothing
C14_Examples ==
  (lexer = "obj" /\ pc = "done") =>
     /\ pieces = <<ConstExample>> =>
          /\ Len(ranges) >= 2
          /\ ranges[1] = ColoredRange(10, 11, 0)
          /\ ranges[2] = ColoredRange(15, 16, 0)
     /\ pieces = <<IfExample>> => ranges = <<>>

\* the claim as written: a ")" whose matching "(" nothing precedes gives
\* object, as every ")" that no block keyword governs
C14_Original == [][C14_StepAs(TRUE)]_vars /\ []C14_Examples

\* amended: a ")" whose matching "(" nothing precedes gives block
C14_BraceClassifiedByTable == [][C14_StepAs(FALSE)]_vars /\ []C14_Examples

\* the brace after "if (x) " has been read as a block: a frame is pushed,
\* nothing is colored
C14_Witness ==
  /\ lexer = "obj" /\ pc = "scan"
  /\ pieces = <<CtxPiece(<<"i","f">>, <<" ","(","x",")"," ">>)>>
  /\ i = Len(text)
  /\ braceStack = <<[isObject |-> FALSE, depth |-> 0]>>
  /\ braces = <<>>

(***************************************************************************)
(* C15  Brace pairing of the object lexer: every "{" outside strings,      *)
(* comments and regex literals pushes one frame, object or block; every    *)
(* "}" pops one frame, and on an empty stack does nothing; only object     *)
(* frames emit spans; the "}" span of a pair has the depth of its "{"      *)
(* span, the number of object frames open when the "{" was read.           *)
(***************************************************************************)
C15_Step ==
  /\ (ObjPastSkips /\ At(text, i) = "{") =>
        /\ Len(braceStack') = Len(braceStack) + 1
        /\ Front(braceStack') = braceStack
        /\ Last(braceStack').depth =
             Cardinality({k \in 1..Len(braceStack) : braceStack[k].isObject})
        /\ IF Last(braceStack').isObject
           THEN braces' = Append(braces, [position |-> i, isObject |-> TRUE,
                                          depth |-> Last(braceStack').depth])
           ELSE braces' = braces
  /\ (ObjPastSkips /\ At(text, i) = "}") =>
        IF braceStack = <<>> THEN braceStack' = <<>> /\ braces' = braces
        ELSE /\ braceStack' = Front(braceStack)
             /\ IF Last(braceStack).isObject
                THEN braces' = Append(braces, [position |-> i, isObject |-> TRUE,
                                               depth |-> Last(braceStack).depth])
                ELSE braces' = braces
  /\ (pc = "scan" /\ lexer = "obj" /\ i >= Len(text)) =>
        SubSeq(ranges', 1, Len(braces)) =
          [k \in 1..Len(braces) |->
             ColoredRange(braces[k].position, braces[k].position + 1,
                          braces[k].depth)]

\* the brace spans bs, read in order with the depths st of the open ones:
\* a "{" span has the number of open spans as depth, a "}" span the depth
\* of the innermost open span, which it closes
RECURSIVE WellPaired(_, _)
WellPaired(bs, st) ==
  IF bs = <<>> THEN TRUE
  ELSE LET b == Head(bs) IN
    IF At(text, b.position) = "{"
    THEN b.depth = Len(st) /\ WellPaired(Tail(bs), Append(st, b.depth))
    ELSE /\ At(text, b.position) = "}"
         /\ st # <<>> /\ Last(st) = b.depth
         /\ WellPaired(Tail(bs), Front(st))

C15_Pairs == lexer = "obj" => WellPaired(braces, <<>>)

MaxKey == 4

KeyIdent == <<"k">>

KeyQuoted == <<"'","k","'">>

KeyComputed == <<"[","k","]">>

\* an object brace, a block brace, a closing brace, a blank, the three key
\* forms and a colon
KeyPieces ==
  { <<"=","{">>, <<";","{">>, <<"}">>, <<" ">>,
    KeyIdent, KeyQuoted, KeyComputed, <<":">> }

KeyFamilies ==
  BaseFamilies \cup
  { [lexer |-> "obj", pieces |-> KeyPieces, max |-> MaxKey, config |-> {TRUE}] }

KeyInit == InitOver(KeyFamilies)

KeySpec == KeyInit /\ [][Next]_vars

IsKeyText(ps) == ps # <<>> /\ \A k \in 1..Len(ps) : ps[k] \in KeyPieces

\* the index of the piece after the blanks that follow piece k
RECURSIVE AfterBlanksAt(_, _)
AfterBlanksAt(ps, k) ==
  IF k >= Len(ps) THEN k + 1
  ELSE IF ps[k + 1] = <<" ">> THEN AfterBlanksAt(ps, k + 1)
  ELSE k + 1

\* the last piece of the identifier that starts with piece k
RECURSIVE IdentLast(_, _)
IdentLast(ps, k) ==
  IF k < Len(ps) /\ ps[k + 1] = KeyIdent THEN IdentLast(ps, k + 1) ELSE k

\* piece k starts a key token: a quoted or computed key, or an identifier
KeyTokenAt(ps, k) ==
  \/ ps[k] \in {KeyQuoted, KeyComputed}
  \/ ps[k] = KeyIdent /\ (k = 1 \/ ps[k - 1] # KeyIdent)

KeyTokenLast(ps, k) == IF ps[k] = KeyIdent THEN IdentLast(ps, k) ELSE k

\* the key token that starts with piece k is followed, after optional
\* blanks, by one colon and not two
IsKey(ps, k) ==
  /\ KeyTokenAt(ps, k)
  /\ LET c == AfterBlanksAt(ps, KeyTokenLast(ps, k)) IN
       /\ c <= Len(ps) /\ ps[c] = <<":">>
       /\ ~(c < Len(ps) /\ ps[c + 1] = <<":">>)

KeyStart(ps, k) == OffsetOf(ps, k)

KeyEnd(ps, k) ==
  OffsetOf(ps, KeyTokenLast(ps, k)) + Len(ps[KeyTokenLast(ps, k)])

(***************************************************************************)
(* C16  Property keys of the object lexer: while key coloring is enabled   *)
(* and the innermost open frame is an object, each identifier, quoted or   *)
(* computed key that is followed, after optional white space, by one colon *)
(* yields one key span that covers the key token, at that frame's depth;   *)
(* no key span is emitted while the innermost open frame is a block.       *)
(***************************************************************************)
\* the keys the step appended
NewKeys == SubSeq(propertyKeys', Len(propertyKeys) + 1, Len(propertyKeys'))

\* the scan passes the start of the key token of piece k
PassesKey(k) ==
  /\ i <= KeyStart(pieces, k) /\ KeyStart(pieces, k) < i'

InObjectFrame == braceStack # <<>> /\ Last(braceStack).isObject

C16_Step ==
  (pc = "scan" /\ lexer = "obj" /\ IsKeyText(pieces)) =>
     /\ \A k \in 1..Len(pieces) :
          (IsKey(pieces, k) /\ PassesKey(k) /\ colorizeKeys /\ InObjectFrame) =>
             NewKeys = << [start |-> KeyStart(pieces, k),
                           end |-> KeyEnd(pieces, k),
                           depth |-> Last(braceStack).depth] >>
     /\ NewKeys # <<>> => InObjectFrame

C16_KeysOfObjectFrames == [][C16_Step]_vars

(***************************************************************************)
(* C17  With the object-brace feature disabled the object lexer returns no *)
(* span, and the hybrid lexer emits no object-brace span and no key span,  *)
(* key coloring enabled or not; it still emits its tag and expression      *)
(* spans, at the depth of the tag stack alone.                             *)
(***************************************************************************)
C17_DisabledFeatureEmitsNothing ==
  ~objectBracesEnabled =>
     /\ lexer = "obj" =>
          /\ ranges = <<>> /\ braces = <<>> /\ propertyKeys = <<>>
          /\ pc \in {"idle", "done"}
     /\ lexer = "jsx" =>
          /\ \A k \in 1..Len(tokens) :
               tokens[k].type \notin {"ObjectBrace", "PropertyKey"}
          /\ pc = "done" => Len(ranges) = Len(tokens)
          /\ objectBraceStack = <<>>
          /\ depth = Len(tagStack)

\* <a>={k: with the feature disabled and key coloring enabled: the tag and
\* the expression start are emitted, the key is not
C17_Witness ==
  /\ lexer = "jsx" /\ ~objectBracesEnabled /\ colorizeKeys /\ pc = "done"
  /\ pieces = << <<"<","a",">">>, <<"=","{">>, <<"k",":">> >>
  /\ Len(ranges) = 4
  /\ tokens[1].type = "JsxOpenStart"
  /\ tokens[4].type = "ExpressionStart"

(***************************************************************************)
(* C18  On a text in which the hybrid lexer never opens a tag it emits the *)
(* same object-brace spans and the same identifier-key spans, at the same  *)
(* depths, as the object lexer under the same configuration.               *)
(***************************************************************************)
HybridSpans(type) ==
  { [start |-> tokens[k].start, end |-> tokens[k].end,
     depth |-> tokens[k].depth] :
      k \in { n \in 1..Len(tokens) : tokens[n].type = type } }

ObjectBraceSpans(t, ob, ck) ==
  IF ~ob THEN {}
  ELSE LET b == findObjectBracesAndKeys(t, ck).braces IN
    { [start |-> b[k].position, end |-> b[k].position + 1,
       depth |-> b[k].depth] : k \in 1..Len(b) }

ObjectIdentifierKeySpans(t, ob, ck) ==
  IF ~ob \/ ~ck THEN {}
  ELSE LET keys == findObjectBracesAndKeys(t, ck).propertyKeys IN
    { keys[k] : k \in { n \in 1..Len(keys) :
                          Test(IdStart, At(t, keys[n].start)) } }

NoTagSeen ==
  \A k \in 1..Len(tokens) : tokens[k].type \in {"ObjectBrace", "PropertyKey"}

C18_HybridAgreesWithObjectLexer ==
  (lexer = "jsx" /\ pc = "done" /\ NoTagSeen) =>
     /\ HybridSpans("ObjectBrace") =
          ObjectBraceSpans(text, objectBracesEnabled, colorizeKeys)
     /\ HybridSpans("PropertyKey") =
          ObjectIdentifierKeySpans(text, objectBracesEnabled, colorizeKeys)

(***************************************************************************)
(* Regular-expression literals: documents of the object lexer composed of  *)
(* slashes, character classes, braces, escapes, flags and a keyword.       *)
(***************************************************************************)
MaxRegex == 4

RegexPieces ==
  { <<"=","/">>, <<"/">>, <<"[","/","]">>, <<"[">>, <<"]">>, <<"{">>, <<"}">>,
    <<"\\">>, <<"g">>, <<"\n">>, <<"i","n"," ">> }

RegexFamilies ==
  BaseFamilies \cup
  { [lexer |-> "obj", pieces |-> RegexPieces, max |-> MaxRegex,
     config |-> {TRUE}] }

RegexInit == InitOver(RegexFamilies)

RegexSpec == RegexInit /\ [][Next]_vars

RefRegexOperators ==
  {"(", "[", "{", ",", ";", ":", "=", "!", "&", "|", "?", "+", "-", "~", "^"}

RefRegexKeywords ==
  { <<"r","e","t","u","r","n">>, <<"c","a","s","e">>,
    <<"t","h","r","o","w">>, <<"i","n">>, <<"t","y","p","e","o","f">>,
    <<"i","n","s","t","a","n","c","e","o","f">>, <<"v","o","i","d">>,
    <<"d","e","l","e","t","e">>, <<"n","e","w">> }

\* the offsets before p that hold something other than white space
RefInkBefore(t, p) == { q \in 0..(p - 1) : At(t, q) \notin {" ", "\n", "\t"} }

\* the word (letters, digits, _ and $) that ends at offset q
RefWordEndingAt(t, q) ==
  LET starts == { s \in 0..q : \A r \in s..q : At(t, r) \in IdChar }
  IN IF starts = {} THEN <<>>
     ELSE LET s == CHOOSE x \in starts : \A y \in starts : x <= y
          IN [k \in 1..(q - s + 1) |-> At(t, s + k - 1)]

\* the slash at p is at the start of the text, after an operator character
\* or after a keyword
RefRegexContext(t, p) ==
  LET ink == RefInkBefore(t, p) IN
    \/ ink = {}
    \/ LET q == CHOOSE x \in ink : \A y \in ink : y <= x IN
         \/ At(t, q) \in RefRegexOperators
         \/ RefWordEndingAt(t, q) \in RefRegexKeywords

\* the offset of the first unescaped slash outside a bracketed class, from
\* p on; Len(t) or more when there is none
RECURSIVE RefRegexClose(_, _, _)
RefRegexClose(t, p, inClass) ==
  IF p >= Len(t) THEN Len(t)
  ELSE IF At(t, p) = "\\" THEN RefRegexClose(t, p + 2, inClass)
  ELSE IF inClass THEN RefRegexClose(t, p + 1, At(t, p) # "]")
  ELSE IF At(t, p) = "/" THEN p
  ELSE RefRegexClose(t, p + 1, At(t, p) = "[")

\* the same, stopping also at the first unescaped line break outside a
\* bracketed class
RECURSIVE RefRegexStop(_, _, _)
RefRegexStop(t, p, inClass) ==
  IF p >= Len(t) THEN Len(t)
  ELSE IF At(t, p) = "\\" THEN RefRegexStop(t, p + 2, inClass)
  ELSE IF inClass THEN RefRegexStop(t, p + 1, At(t, p) # "]")
  ELSE IF At(t, p) \in {"/", "\n"} THEN p
  ELSE RefRegexStop(t, p + 1, At(t, p) = "[")

\* the offset after the closing slash at c and the flags that follow it
RefAfterFlags(t, c) ==
  LET ends == { e \in (c + 1)..Len(t) :
                  \A q \in (c + 1)..(e - 1) :
                    At(t, q) \in {"g", "i", "m", "s", "u", "y"} }
  IN CHOOSE e \in ends : \A x \in ends : x <= e

\* the scan is at a slash in regex context that starts no comment
AtRefRegex ==
  /\ InObjLoop /\ At(text, i) = "/"
  /\ ~AtLineComment /\ ~AtBlockComment
  /\ RefRegexContext(text, i)

(***************************************************************************)
(* C19  In the object lexer a slash in regex context (start of the text,   *)
(* after an operator character, after a keyword) starts a regex that is    *)
(* skipped up to and including the first unescaped slash outside a         *)
(* bracketed class, and the flags after it; no brace in between yields a   *)
(* span or changes the stack.                                              *)
(***************************************************************************)
C19_OriginalStep ==
  (AtRefRegex /\ RefRegexClose(text, i + 1, FALSE) < Len(text)) =>
     /\ i' = RefAfterFlags(text, RefRegexClose(text, i + 1, FALSE))
     /\ UNCHANGED <<braceStack, braces, propertyKeys>>

C19_Original == [][C19_OriginalStep]_vars

\* C19 as amended: the regex also ends, earlier, at the first unescaped line
\* break outside a bracketed class, which is left to be scanned; without
\* either end the rest of the text is skipped
C19_Step ==
  AtRefRegex =>
     LET stop == RefRegexStop(text, i + 1, FALSE) IN
       /\ IF stop >= Len(text) THEN i' >= Len(text)
          ELSE IF At(text, stop) = "/" THEN i' = RefAfterFlags(text, stop)
          ELSE i' = stop
       /\ UNCHANGED <<braceStack, braces, propertyKeys>>

C19_RegexSkipped == [][C19_Step]_vars

\* =/[/]{/ : the regex with a slash in a class and a brace after it has
\* been skipped to its closing slash; nothing is on the stack
C19_Witness ==
  /\ lexer = "obj" /\ pc = "scan"
  /\ pieces = << <<"=","/">>, <<"[","/","]">>, <<"{">>, <<"/">> >>
  /\ i = Len(text)
  /\ braceStack = <<>> /\ braces = <<>>

(***************************************************************************)
(* C20  Unterminated literals in the hybrid and the object lexer: a        *)
(* single- or double-quoted string without its closing quote ends at the   *)
(* line break, where scanning resumes; a template literal, interpolation   *)
(* or block comment without its end consumes the rest of the text, and no  *)
(* span is emitted from there on.                                          *)
(***************************************************************************)
\* the scan is at the start of a string or comment
AtLiteralStart ==
  /\ pc = "scan" /\ lexer \in {"jsx", "obj"} /\ i < Len(text)
  /\ RefLiteralAt(text, i)

\* the quoted string that starts at the scan position has no closing quote
\* on its line, and the line ends with a line break
AtUnterminatedString ==
  /\ AtLiteralStart /\ ~AtLineComment /\ ~AtBlockComment
  /\ At(text, i) \in {"'", "\""}
  /\ LET e == RefStringEnd(text, i + 1, At(text, i)) IN
       e < Len(text) /\ At(text, e) = "\n"

\* the template literal (with its interpolations) or the block comment that
\* starts at the scan position has no end
AtUnterminatedToEnd ==
  /\ AtLiteralStart /\ ~AtLineComment
  /\ \/ AtBlockComment /\ RefBlockCommentEnd(text, i + 2) >= Len(text)
        /\ ~( Len(text) >= i + 4 /\ At(text, Len(text) - 2) = "*"
                                 /\ At(text, Len(text) - 1) = "/" )
     \/ ~AtBlockComment /\ At(text, i) = Backtick
        /\ ~RefTemplateClosed(text, i + 1)

C20_Step ==
  /\ AtUnterminatedString =>
       /\ i' = RefStringEnd(text, i + 1, At(text, i))
       /\ UNCHANGED <<tokens, tagStack, objectBraceStack, depth,
                      braceStack, braces, propertyKeys>>
  /\ AtUnterminatedToEnd =>
       /\ i' >= Len(text)
       /\ UNCHANGED <<tokens, tagStack, objectBraceStack, depth,
                      braceStack, braces, propertyKeys>>

\* once the scan is at the end of the text nothing more is emitted
C20_NothingAfterEnd ==
  (pc = "scan" /\ lexer \in {"jsx", "obj"} /\ i >= Len(text)) =>
     /\ UNCHANGED <<tokens, braces, propertyKeys>>
     /\ pc' = "done"

C20_UnterminatedLiterals == [][C20_Step /\ C20_NothingAfterEnd]_vars

(***************************************************************************)
(* C21  Every lexer invocation terminates and returns its spans: in each   *)
(* iteration of the scan loops of the hybrid and the object lexer the      *)
(* cursor strictly increases, the markup lexer's tag search resumes        *)
(* strictly after the start of every candidate, matched or discarded, and  *)
(* its loop over the tags moves on by one tag.                             *)
(***************************************************************************)
C21_Step ==
  /\ (pc = "scan" /\ lexer \in {"jsx", "obj"} /\ i < Len(text)) => i' > i
  /\ InHtmlLoop => tagIdx' = tagIdx + 1

\* from every lastIndex the regex's next candidate is at lastIndex or after
\* it, and the search resumes after the candidate's name
C21_TagSearchAdvances ==
  lexer = "html" =>
    \A lastIndex \in 0..Len(text) :
      LET index == NextTagStart(text, lastIndex)
          nameStart == IF At(text, index + 1) = "/" THEN index + 2
                       ELSE index + 1
      IN index # -1 =>
           /\ index >= lastIndex
           /\ NameRunEnd(text, nameStart, HtmlNameChar) > index

\* parse can be entered for each lexer, and an invocation that has not
\* returned can take a step that changes the state
C21_CanProceed ==
  /\ pc = "idle" => lexer \in {"html", "jsx", "obj"}
  /\ pc = "scan" => ENABLED <<Next>>_vars

\* the cursors only grow, are bounded by the text and the tag list, and an
\* invocation is never stuck before it returns: every invocation returns
C21_EveryParseTerminates ==
  /\ [][C21_Step]_vars
  /\ [](C21_TagSearchAdvances /\ C21_CanProceed)

\* the hybrid lexer has returned on a text that ends in an unterminated
\* string and an unterminated block comment
C21_Witness ==
  /\ lexer = "jsx" /\ pc = "done"
  /\ pieces = << <<"<","a",">">>, <<"'">>, <<"/","*">> >>
  /\ Len(ranges) = 3

(***************************************************************************)
(* Sessions: the extension keeps one instance of each parser and calls     *)
(* parse again and again, for other documents and after updateConfig.      *)
(* What a call left in the variables of the loops is still there when the  *)
(* next call starts.                                                       *)
(***************************************************************************)
MaxCalls == 3

\* the documents of a session
SessionDocs ==
  { [lexer |-> "html",
     pieces |-> << <<"<","a",">">>, <<"<","b","/",">">>, <<"<","/","a",">">> >>],
    [lexer |-> "jsx",
     pieces |-> << <<"=","{">>, <<"k",":">>, <<"}">>, <<"<","a",">">>, <<"{">>,
                   <<"=","{">>, <<"k",":">>, <<"}">>, <<"}">>,
                   <<"<","/","a",">">> >>],
    [lexer |-> "jsx",
     pieces |-> << <<"'","x","'">>, <<"/","*","c","*","/">>, <<"<","a",">">>,
                   <<"=","{">>, <<"/","/">> >>],
    [lexer |-> "obj",
     pieces |-> << <<"=","{">>, <<"k",":">>, <<"/","x","/">>, <<"}">> >>],
    [lexer |-> "obj",
     pieces |-> << <<"'","x","'">>, <<"/","*","c","*","/">>, <<"=","{">>,
                   <<"{">>, <<"/","/">> >>] }

\* the configurations a parser of the given kind can be given
SessionConfigs(lx) == IF lx = "html" THEN {FALSE} ELSE BOOLEAN

SessionInit ==
  /\ \E d \in SessionDocs :
       \E ck \in SessionConfigs(d.lexer), ob \in SessionConfigs(d.lexer) :
         /\ lexer = d.lexer /\ pieces = d.pieces /\ text = Flatten(d.pieces)
         /\ colorizeKeys = ck /\ objectBracesEnabled = ob
  /\ HostInit
  /\ pc = "idle" /\ tags = <<>> /\ tagIdx = 0 /\ tagStack = <<>>
  /\ ranges = <<>> /\ i = 0 /\ depth = 0 /\ inJsxExpression = FALSE
  /\ jsxExpressionBraceDepth = 0 /\ objectBraceStack = <<>> /\ tokens = <<>>
  /\ braceStack = <<>> /\ braces = <<>> /\ propertyKeys = <<>>
  /\ lexicalBraces = <<>>

\* updateDecorations is called again, after handleConfigChange has given the
\* parsers a configuration: the parser of the document's language is about
\* to parse it; the locals of the call that returned are left as they are
ParseAgain ==
  /\ pc = "done" /\ calls < MaxCalls
  /\ \E d \in SessionDocs :
       \E ck \in SessionConfigs(d.lexer), ob \in SessionConfigs(d.lexer) :
         /\ lexer' = d.lexer /\ pieces' = d.pieces /\ text' = Flatten(d.pieces)
         /\ colorizeKeys' = ck /\ objectBracesEnabled' = ob
  /\ calls' = calls + 1
  /\ returned' = returned \cup
       { [lexer |-> lexer, text |-> text, colorizeKeys |-> colorizeKeys,
          objectBracesEnabled |-> objectBracesEnabled, ranges |-> ranges] }
  /\ pc' = "idle"
  /\ UNCHANGED <<extVars, debVars, flowVars, htmlVars, tagStack, ranges, i, jsxVars,
                 objVars>>

SessionNext == Next \/ ParseAgain

SessionSpec == SessionInit /\ [][SessionNext]_vars

(***************************************************************************)
(* C22  Each lexer is deterministic and history-free: a call returns the   *)
(* spans that every earlier call on the same text with the same two flags  *)
(* returned, whatever was parsed and configured in between.                *)
(***************************************************************************)
C22_SameInputSameSpans ==
  pc = "done" =>
    \A r \in returned :
      ( /\ r.lexer = lexer /\ r.text = text
        /\ r.colorizeKeys = colorizeKeys
        /\ r.objectBracesEnabled = objectBracesEnabled ) => r.ranges = ranges

\* the object lexer has returned for the third call, the second on its
\* document, after a call on a document that leaves braces open
C22_Witness ==
  /\ pc = "done" /\ calls = 3 /\ lexer = "obj" /\ objectBracesEnabled
  /\ Len(ranges) > 0
  /\ \E r \in returned :
       /\ r.lexer = "obj" /\ r.text = text /\ r.ranges = ranges
       /\ r.colorizeKeys = colorizeKeys /\ r.objectBracesEnabled
  /\ \E r \in returned :
       r.lexer = "obj" /\ r.text # text /\ r.objectBracesEnabled

(***************************************************************************)
(* The extension: configuration, language selection, updateDecorations     *)
(* and the DecorationManager.  One editor is followed; its document and    *)
(* the configuration change between the calls of updateDecorations.        *)
(***************************************************************************)
MaxUpdates == 3

LanguageIds ==
  { "html", "xml", "javascriptreact", "typescriptreact", "javascript",
    "typescript", "plaintext" }

DEFAULT_LANGUAGES ==
  [ l \in { "html", "xml", "javascriptreact", "typescriptreact",
            "javascript", "typescript" } |-> TRUE ]

\* mutant: config.enabled is not consulted
isLanguageEnabled_IgnoresEnabled(id, cfgEnabled, cfgLanguages) ==
  IF id \in DOMAIN cfgLanguages THEN cfgLanguages[id] ELSE FALSE

\* config.languages[languageId] ?? false, behind config.enabled
isLanguageEnabled(id, cfgEnabled, cfgLanguages) ==
  IF ~cfgEnabled THEN FALSE
  ELSE IF id \in DOMAIN cfgLanguages THEN cfgLanguages[id] ELSE FALSE

isHtmlLanguage(id) == id = "html" \/ id = "xml"

isJsxLanguage(id) == id = "javascriptreact" \/ id = "typescriptreact"

isJsTsLanguage(id) == id = "javascript" \/ id = "typescript"

\* mutant: a language that is none of the six is given the object parser
getParser_DefaultsToObject(id) ==
  IF isHtmlLanguage(id) THEN "html"
  ELSE IF isJsxLanguage(id) THEN "jsx"
  ELSE "obj"

\* the parser instance for a language, "null" for none
getParser(id) ==
  IF isHtmlLanguage(id) THEN "html"
  ELSE IF isJsxLanguage(id) THEN "jsx"
  ELSE IF isJsTsLanguage(id) THEN "obj"
  ELSE "null"

\* mutant: the depth is taken for the level, without wrapping around
RECURSIVE levelRanges_NoWrap(_, _, _)
levelRanges_NoWrap(rs, level, numColors) ==
  IF rs = <<>> THEN <<>>
  ELSE (IF Head(rs).depth = level
        THEN << [start |-> Head(rs).start, end |-> Head(rs).end] >>
        ELSE <<>>) \o levelRanges_NoWrap(Tail(rs), level, numColors)

\* the ranges of rs whose depth falls on the level, in their order
RECURSIVE levelRanges(_, _, _)
levelRanges(rs, level, numColors) ==
  IF rs = <<>> THEN <<>>
  ELSE (IF Head(rs).depth % numColors = level
        THEN << [start |-> Head(rs).start, end |-> Head(rs).end] >>
        ELSE <<>>) \o levelRanges(Tail(rs), level, numColors)

\* DecorationManager.applyDecorations: the editor's decorations afterwards
applyDecorations(types, decs, rs) ==
  IF Len(types) = 0 THEN decs
  ELSE [ n \in 1..Len(types) |-> levelRanges(rs, n - 1, Len(types)) ]

\* DecorationManager.clearDecorations: the editor's decorations afterwards
clearDecorations(types) == [ n \in 1..Len(types) |-> <<>> ]

\* the documents the editor can show
ExtDocs ==
  { [languageId |-> "html",
     pieces |-> << <<"<","a",">">>, <<"<","b",">">>, <<"<","c","/",">">>,
                   <<"<","/","b",">">>, <<"<","/","a",">">> >>],
    [languageId |-> "xml",
     pieces |-> << <<"<","a",">">>, <<"<","b",">">>, <<"<","c",">">> >>],
    [languageId |-> "plaintext",
     pieces |-> << <<"<","a",">">>, <<"=","{">>, <<"}">> >>],
    [languageId |-> "javascriptreact",
     pieces |-> << <<"=","{">>, <<"k",":">>, <<"}">>, <<"<","a",">">>, <<"{">>,
                   <<"=","{">>, <<"k",":">>, <<"}">>, <<"}">>,
                   <<"<","/","a",">">> >>],
    [languageId |-> "typescriptreact",
     pieces |-> << <<"'","x","'">>, <<"/","*","c","*","/">>, <<"<","a",">">>,
                   <<"=","{">>, <<"/","/">> >>],
    [languageId |-> "javascript",
     pieces |-> << <<"=","{">>, <<"k",":">>, <<"/","x","/">>, <<"}">> >>],
    [languageId |-> "typescript",
     pieces |-> << <<"'","x","'">>, <<"/","*","c","*","/">>, <<"=","{">>,
                   <<"{">>, <<"/","/">> >>] }

\* the configurations getConfiguration can return
ExtConfigs ==
  { [enabled |-> TRUE, languages |-> DEFAULT_LANGUAGES,
     colorizeKeys |-> TRUE, objectBracesEnabled |-> TRUE,
     debounceMs |-> 100,
     colors |-> <<"gold", "orange">>],
    [enabled |-> FALSE, languages |-> DEFAULT_LANGUAGES,
     colorizeKeys |-> TRUE, objectBracesEnabled |-> TRUE,
     debounceMs |-> 100,
     colors |-> <<"gold", "orange">>],
    [enabled |-> TRUE,
     languages |-> [ l \in {"html", "xml", "javascript", "plaintext"} |->
                       l \in {"xml", "plaintext"} ],
     colorizeKeys |-> FALSE, objectBracesEnabled |-> TRUE,
     debounceMs |-> 100,
     colors |-> <<"gold", "orange", "magenta">>],
    [enabled |-> TRUE, languages |-> DEFAULT_LANGUAGES,
     colorizeKeys |-> TRUE, objectBracesEnabled |-> FALSE,
     debounceMs |-> 50,
     colors |-> <<"gold">>],
    [enabled |-> TRUE, languages |-> DEFAULT_LANGUAGES,
     colorizeKeys |-> TRUE, objectBracesEnabled |-> TRUE,
     debounceMs |-> 100,
     colors |-> <<>>] }

\* activate: the configuration is read, the parsers and the decoration
\* manager are constructed, updateDecorations is due for the active editor
ExtInit ==
  /\ \E c \in ExtConfigs :
       /\ enabled = c.enabled /\ languages = c.languages
       /\ colorizeKeys = c.colorizeKeys
       /\ objectBracesEnabled = c.objectBracesEnabled
       /\ decorationTypes = c.colors
       /\ decorations = clearDecorations(c.colors)
       /\ wait = c.debounceMs
  /\ NoDebounce
  /\ NoFlow
  /\ extPc = "refresh" /\ languageId = "none"
  /\ calls = 0 /\ returned = {}
  /\ lexer = "none" /\ pieces = <<>> /\ text = <<>>
  /\ pc = "idle" /\ tags = <<>> /\ tagIdx = 0 /\ tagStack = <<>>
  /\ ranges = <<>> /\ i = 0 /\ depth = 0 /\ inJsxExpression = FALSE
  /\ jsxExpressionBraceDepth = 0 /\ objectBraceStack = <<>> /\ tokens = <<>>
  /\ braceStack = <<>> /\ braces = <<>> /\ propertyKeys = <<>>
  /\ lexicalBraces = <<>>

lexerVars == <<pc, htmlVars, tagStack, ranges, i, jsxVars, objVars>>

\* handleConfigChange up to its loop over the visible editors: the parsers
\* and the decoration manager take the new configuration; new colors
\* dispose the decoration types, and the editor's decorations with them
handleConfigChange ==
  /\ extPc = "ready" /\ calls < MaxUpdates
  /\ \E c \in ExtConfigs :
       /\ enabled' = c.enabled /\ languages' = c.languages
       /\ colorizeKeys' = c.colorizeKeys
       /\ objectBracesEnabled' = c.objectBracesEnabled
       /\ IF decorationTypes # c.colors
          THEN /\ decorationTypes' = c.colors
               /\ decorations' = clearDecorations(c.colors)
          ELSE UNCHANGED <<decorationTypes, decorations>>
       /\ wait' = c.debounceMs
  /\ extPc' = "refresh"
  /\ UNCHANGED <<calls, returned, languageId, lexer, pieces, text, lexerVars,
                 timeoutId, timers, now, callLog, invoked, cancelledUpTo,
                 flowVars>>

updateDecorationsDue == extPc \in {"ready", "refresh"} /\ calls < MaxUpdates

\* updateDecorations, the language is not enabled (lines 122-125)
UpdateNotEnabled ==
  /\ updateDecorationsDue
  /\ \E d \in ExtDocs :
       /\ ~isLanguageEnabled(d.languageId, enabled, languages)
       /\ languageId' = d.languageId
  /\ decorations' = clearDecorations(decorationTypes)
  /\ extPc' = "ready"
  /\ calls' = calls + 1
  /\ UNCHANGED <<returned, enabled, languages, decorationTypes, inputVars,
                 lexerVars, debVars, flowVars>>

\* updateDecorations, no parser for the language (lines 128-132)
UpdateNoParser ==
  /\ updateDecorationsDue
  /\ \E d \in ExtDocs :
       /\ isLanguageEnabled(d.languageId, enabled, languages)
       /\ getParser(d.languageId) = "null"
       /\ languageId' = d.languageId
  /\ decorations' = clearDecorations(decorationTypes)
  /\ extPc' = "ready"
  /\ calls' = calls + 1
  /\ UNCHANGED <<returned, enabled, languages, decorationTypes, inputVars,
                 lexerVars, debVars, flowVars>>

\* updateDecorations, the parser of the language is called (lines 128-134)
UpdateParse ==
  /\ updateDecorationsDue
  /\ \E d \in ExtDocs :
       /\ isLanguageEnabled(d.languageId, enabled, languages)
       /\ getParser(d.languageId) # "null"
       /\ languageId' = d.languageId
       /\ lexer' = getParser(d.languageId)
       /\ pieces' = d.pieces
       /\ text' = Flatten(d.pieces)
  /\ pc' = "idle"
  /\ extPc' = "parsing"
  /\ calls' = calls + 1
  /\ UNCHANGED <<returned, enabled, languages, decorationTypes, decorations,
                 colorizeKeys, objectBracesEnabled, htmlVars, tagStack,
                 ranges, i, jsxVars, objVars, debVars, flowVars>>

\* updateDecorations, the result of the parser is applied (line 137)
UpdateApply ==
  /\ extPc = "parsing" /\ pc = "done"
  /\ decorations' = applyDecorations(decorationTypes, decorations, ranges)
  /\ extPc' = "ready"
  /\ UNCHANGED <<calls, returned, languageId, enabled, languages,
                 decorationTypes, inputVars, lexerVars, debVars,
                 flowVars>>

ExtNext ==
  \/ Next
  \/ handleConfigChange
  \/ UpdateNotEnabled
  \/ UpdateNoParser
  \/ UpdateParse
  \/ UpdateApply

ExtSpec == ExtInit /\ [][ExtNext]_vars

(***************************************************************************)
(* C23  Language selection: html and xml go to the markup lexer,           *)
(* javascriptreact and typescriptreact to the hybrid lexer, javascript and *)
(* typescript to the object lexer, no language to two of them; for any     *)
(* other language updateDecorations calls no parser and clears the         *)
(* editor's decorations.                                                   *)
(***************************************************************************)
RefLexerOf(id) ==
  CASE id \in {"html", "xml"} -> "html"
    [] id \in {"javascriptreact", "typescriptreact"} -> "jsx"
    [] id \in {"javascript", "typescript"} -> "obj"
    [] OTHER -> "null"

C23_AtMostOneLexer ==
  \A id \in LanguageIds :
    /\ Cardinality({ p \in {"html", "jsx", "obj"} :
                       \/ p = "html" /\ isHtmlLanguage(id)
                       \/ p = "jsx" /\ isJsxLanguage(id)
                       \/ p = "obj" /\ isJsTsLanguage(id) }) <= 1
    /\ getParser(id) = RefLexerOf(id)

\* a step of updateDecorations that has read the editor's language
C23_Step ==
  calls' = calls + 1 =>
    /\ extPc' = "parsing" => lexer' = RefLexerOf(languageId') /\ pc' = "idle"
    /\ RefLexerOf(languageId') = "null" =>
         /\ extPc' = "ready"
         /\ UNCHANGED <<lexer, text, lexerVars>>
         /\ decorations' = [ n \in 1..Len(decorationTypes) |-> <<>> ]

C23_LanguageSelection == [][C23_Step]_vars /\ []C23_AtMostOneLexer

\* plaintext is enabled in the settings; the editor showed a parsed
\* document before and has no decoration left
C23_Witness ==
  /\ languageId = "plaintext" /\ extPc = "ready" /\ calls = 2
  /\ isLanguageEnabled(languageId, enabled, languages)
  /\ ranges # <<>> /\ lexer # "none"
  /\ Len(decorationTypes) = 3
  /\ \A n \in 1..3 : decorations[n] = <<>>

(***************************************************************************)
(* C24  Depth-to-color mapping: with a palette of N >= 1 colors,           *)
(* applyDecorations gives every range of depth d to exactly one decoration *)
(* type, the one with index d mod N, and sets the list of every one of the *)
(* N types on each call, to the empty list where no range falls.           *)
(***************************************************************************)
\* the indices of the ranges that fall on decoration type n (from 1) of N
RefOnLevel(rs, n, N) == { k \in 1..Len(rs) : rs[k].depth % N = n - 1 }

\* the j-th smallest element of the set S of numbers
RefNth(S, j) == CHOOSE x \in S : Cardinality({ y \in S : y < x }) = j - 1

C24_Step ==
  (extPc = "parsing" /\ extPc' = "ready" /\ Len(decorationTypes) >= 1) =>
    LET N == Len(decorationTypes) IN
      /\ DOMAIN decorations' = 1..N
      /\ \A n \in 1..N :
           LET on == RefOnLevel(ranges, n, N) IN
             /\ Len(decorations'[n]) = Cardinality(on)
             /\ \A j \in 1..Cardinality(on) :
                  LET r == ranges[RefNth(on, j)] IN
                    decorations'[n][j] = [start |-> r.start, end |-> r.end]
      /\ \A k \in 1..Len(ranges) :
           Cardinality({ n \in 1..N : k \in RefOnLevel(ranges, n, N) }) = 1

C24_DepthModuloPalette == [][C24_Step]_vars

\* two colors and the markup document with depths 0, 1 and 2: the six
\* ranges of depth 0 and the three of depth 2 share the first color
C24_Witness ==
  /\ extPc = "ready" /\ languageId = "html" /\ pc = "done"
  /\ Len(decorationTypes) = 2
  /\ \E k \in 1..Len(ranges) : ranges[k].depth = 2
  /\ Len(decorations[1]) = 9 /\ Len(decorations[2]) = 6

(***************************************************************************)
(* C25  Whenever updateDecorations runs while the extension is disabled,   *)
(* or the editor's language is set to false or is absent from the          *)
(* languages setting, no parser is called and the editor's decorations are *)
(* cleared for every decoration type, whatever configurations came before. *)
(***************************************************************************)
C25_Step ==
  ( /\ calls' = calls + 1
    /\ \/ ~enabled
       \/ languageId' \notin DOMAIN languages
       \/ languages[languageId'] = FALSE ) =>
     /\ extPc' = "ready"
     /\ UNCHANGED <<lexer, text, lexerVars>>
     /\ DOMAIN decorations' = 1..Len(decorationTypes)
     /\ \A n \in 1..Len(decorationTypes) : decorations'[n] = <<>>

C25_DisabledClears == [][C25_Step]_vars

\* the extension was disabled after a document had been parsed and
\* decorated in two colors; the second updateDecorations has cleared both
C25_Witness ==
  /\ ~enabled /\ extPc = "ready" /\ calls = 2
  /\ ranges # <<>> /\ pc = "done"
  /\ languageId \in DOMAIN languages /\ languages[languageId]
  /\ decorationTypes = <<"gold", "orange">>
  /\ decorations = << <<>>, <<>> >>

\* ---------------------------------------------------------------------
\* C26: the HybridLexer token list is in document order: start offsets
\* strictly increase from one token to the next, and each token ends at or
\* before the start of the next one.
C26_Ordered ==
  lexer = "jsx" =>
    \A k \in 1..(Len(tokens) - 1) :
      /\ tokens[k].start < tokens[k + 1].start
      /\ tokens[k].end <= tokens[k + 1].start

\* the tokens a step appends lie between the cursor before and after it
C26_Step ==
  lexer = "jsx" =>
    /\ Len(tokens') >= Len(tokens)
    /\ \A k \in 1..Len(tokens) : tokens'[k] = tokens[k]
    /\ \A k \in (Len(tokens) + 1)..Len(tokens') :
         /\ i <= tokens'[k].start
         /\ tokens'[k].start < tokens'[k].end
         /\ tokens'[k].end <= i'

C26_TokensInDocumentOrder == [][C26_Step]_vars /\ []C26_Ordered

C26_Witness ==
  /\ lexer = "jsx" /\ pc = "done"
  /\ Len(tokens) >= 5
  /\ \E k \in 1..Len(tokens) : tokens[k].type = "PropertyKey"
  /\ \E k \in 1..Len(tokens) : tokens[k].type = "JsxClose"

(***************************************************************************)
(* Hybrid documents with attributes and with nested tags of both cases.    *)
(***************************************************************************)
MaxAttr == 5

MaxTagNest == 4

\* hybrid: a tag start with an attribute, a quote, the two closing brackets,
\* the braces of an attribute expression, a closing tag
JsxAttrPieces ==
  { <<"<","a"," ","t","=">>, <<"'">>, <<">">>, <<"/",">">>, <<"{">>, <<"}">>,
    <<"<","/","a",">">> }

\* hybrid: whole tags spelled in both cases, an object literal brace
JsxNestPieces ==
  { <<"<","a",">">>, <<"<","A",">">>, <<"<","b",">">>,
    <<"<","/","a",">">>, <<"<","/","A",">">>, <<"<","/","b",">">>,
    <<"=","{">> }

TagFamilies ==
  BaseFamilies \cup
  { [lexer |-> "jsx", pieces |-> JsxAttrPieces, max |-> MaxAttr,
     config |-> {TRUE}],
    [lexer |-> "jsx", pieces |-> JsxNestPieces, max |-> MaxTagNest,
     config |-> {TRUE}] }

TagInit == InitOver(TagFamilies)

TagSpec == TagInit /\ [][Next]_vars

\* ---------------------------------------------------------------------
\* C27: an opening tag read by the HybridLexer appends exactly three
\* tokens: the `<`, the name and the closing bracket, all at the depth held
\* before the tag.  When the bracket is `>` the name is pushed and depth
\* grows by 1; when it is `/>` the tag stack and depth are unchanged.  The
\* cursor moves past the bracket, so the attribute text between the name
\* and the bracket (quoted values and {...} expressions included) gives no
\* token: in the token list the three tokens of a tag are adjacent.
C27_Step ==
  (lexer = "jsx" /\ pc = "scan" /\ JsxInMarkup /\ JsxOpenTagAt) =>
    \E e \in (i + 3)..Len(text) :
      LET nameEnd == NameRunEnd(text, i + 1, JsxNameChar)
          self == At(text, e - 2) = "/" /\ e - 2 >= nameEnd
          open == IF self THEN e - 2 ELSE e - 1
          was == Len(tokens)
      IN /\ At(text, e - 1) = ">"
         /\ Len(tokens') = was + 3
         /\ SubSeq(tokens', 1, was) = tokens
         /\ <<tokens'[was + 1].start, tokens'[was + 1].end>> = <<i, i + 1>>
         /\ <<tokens'[was + 2].start, tokens'[was + 2].end>> =
              <<i + 1, nameEnd>>
         /\ <<tokens'[was + 3].start, tokens'[was + 3].end>> = <<open, e>>
         /\ \A k \in 1..3 : tokens'[was + k].depth = depth
         /\ tagStack' = IF self THEN tagStack
                        ELSE Append(tagStack, slice(text, i + 1, nameEnd))
         /\ depth' = IF self THEN depth ELSE depth + 1
         /\ i' = e

\* the tokens of an opening tag are adjacent in the token list
C27_TagTokensAdjacent ==
  lexer = "jsx" =>
    \A k \in 1..Len(tokens) :
      (tokens[k].type = "JsxOpenStart" /\ At(text, tokens[k].start) = "<") =>
        /\ k + 2 <= Len(tokens)
        /\ tokens[k + 1].type = "JsxOpenStart"
        /\ tokens[k + 1].start = tokens[k].end
        /\ tokens[k + 2].type \in {"JsxOpenEnd", "JsxSelfClose"}
        /\ \A p \in tokens[k + 1].end..(tokens[k + 2].start - 1) :
             \A m \in 1..Len(tokens) : tokens[m].start # p

C27_OpeningTags == [][C27_Step]_vars /\ []C27_TagTokensAdjacent

\* <a t='>'> was read: an opening tag whose quoted value holds a bracket
C27_Witness ==
  /\ lexer = "jsx" /\ pc = "done"
  /\ text = <<"<","a"," ","t","=","'",">","'",">">>
  /\ Len(tokens) = 3 /\ tokens[3].type = "JsxOpenEnd"
  /\ tokens[3].start = 8
  /\ tagStack = << <<"a">> >> /\ depth = 1

\* ---------------------------------------------------------------------
\* C28: a closing tag read by the HybridLexer matches the nearest stack
\* entry spelled exactly like its name; an entry that differs in letter
\* case does not match.  On a match at index m (0-based) the tag stack is
\* truncated to length m and depth decreases by the number of frames
\* removed; without a match both stay.  The three closing tokens carry the
\* depth after that decrease.
C28_Step ==
  (lexer = "jsx" /\ pc = "scan" /\ JsxInMarkup /\ JsxCloseTagAt) =>
    LET name == parseClosingTag(text, i).tagName
        same == {k \in 1..Len(tagStack) : tagStack[k] = name}
        kept == IF same = {} THEN Len(tagStack)
                ELSE (CHOOSE k \in same : \A h \in same : h <= k) - 1
        was == Len(tokens)
    IN /\ tagStack' = SubSeq(tagStack, 1, kept)
       /\ depth' = depth - (Len(tagStack) - kept)
       /\ Len(tokens') = was + 3
       /\ SubSeq(tokens', 1, was) = tokens
       /\ \A k \in 1..3 : /\ tokens'[was + k].type = "JsxClose"
                           /\ tokens'[was + k].depth = depth'

C28_ClosingTags == [][C28_Step]_vars

\* <a><A><b></a> was read: the closing tag passed over b and A, which
\* differs from it in case only, and matched a at index 0
C28_Witness ==
  /\ lexer = "jsx" /\ pc = "done"
  /\ text = <<"<","a",">","<","A",">","<","b",">","<","/","a",">">>
  /\ Len(tokens) = 12 /\ tokens[7].depth = 2
  /\ \A k \in 10..12 : tokens[k].type = "JsxClose" /\ tokens[k].depth = 0
  /\ tagStack = <<>> /\ depth = 0

(***************************************************************************)
(* DebouncedFunction.  The host keeps the timers that setTimeout has set   *)
(* and clearTimeout has not cleared; it runs the callback of a timer no    *)
(* earlier than the timer's delay after it was set, and once.  A handler   *)
(* runs to its end before the host runs anything else.                     *)
(***************************************************************************)
MaxDebounceCalls == 2

MaxTime == 4

\* the values of debounceMs, in ticks of the clock
Waits == {1, 2}

\* the editors handleDocumentChange passes to call()
Editors == {"editor1", "editor2"}

\* new DebouncedFunction(updateDecorations, config.debounceMs)
DebounceInit ==
  /\ wait \in Waits
  /\ NoDebounce
  /\ NoFlow
  /\ calls = 0 /\ returned = {}
  /\ extPc = "off" /\ languageId = "none" /\ enabled = TRUE
  /\ languages = <<>> /\ decorationTypes = <<>> /\ decorations = <<>>
  /\ lexer = "none" /\ pieces = <<>> /\ text = <<>>
  /\ colorizeKeys = TRUE /\ objectBracesEnabled = TRUE
  /\ pc = "idle" /\ tags = <<>> /\ tagIdx = 0 /\ tagStack = <<>>
  /\ ranges = <<>> /\ i = 0 /\ depth = 0 /\ inJsxExpression = FALSE
  /\ jsxExpressionBraceDepth = 0 /\ objectBraceStack = <<>> /\ tokens = <<>>
  /\ braceStack = <<>> /\ braces = <<>> /\ propertyKeys = <<>>
  /\ lexicalBraces = <<>>

notDebVars == <<calls, returned, extVars, flowVars, inputVars, lexerVars>>

\* clearTimeout(this.timeoutId): the host forgets the timer with that id
clearTimeout(id) == {t \in timers : t.id # id}

\* mutant: call() does not cancel the pending timer
call_KeepsTimer ==
  /\ Len(callLog) < MaxDebounceCalls /\ now + wait <= MaxTime
  /\ \E args \in Editors :
       /\ timers' = timers \cup
            { [id |-> Len(callLog) + 1, args |-> args, due |-> now + wait] }
       /\ callLog' = Append(callLog, [args |-> args, at |-> now, wait |-> wait])
  /\ timeoutId' = Len(callLog) + 1
  /\ UNCHANGED <<notDebVars, wait, now, invoked, cancelledUpTo>>

\* call(...args): cancel(), then setTimeout(callback, this.wait); the id of
\* the new timer is the number of the call
call ==
  /\ Len(callLog) < MaxDebounceCalls /\ now + wait <= MaxTime
  /\ \E args \in Editors :
       /\ timers' = clearTimeout(timeoutId) \cup
            { [id |-> Len(callLog) + 1, args |-> args, due |-> now + wait] }
       /\ callLog' = Append(callLog, [args |-> args, at |-> now, wait |-> wait])
  /\ timeoutId' = Len(callLog) + 1
  /\ UNCHANGED <<notDebVars, wait, now, invoked, cancelledUpTo>>

\* mutant: cancel() forgets the id and leaves the timer set
cancel_LeavesTimer ==
  /\ timeoutId' = 0
  /\ cancelledUpTo' = Len(callLog)
  /\ UNCHANGED <<notDebVars, timers, wait, now, callLog, invoked>>

\* cancel()
cancel ==
  /\ IF timeoutId # 0
     THEN timers' = clearTimeout(timeoutId) /\ timeoutId' = 0
     ELSE UNCHANGED <<timers, timeoutId>>
  /\ cancelledUpTo' = Len(callLog)
  /\ UNCHANGED <<notDebVars, wait, now, callLog, invoked>>

\* setWait(wait)
setWait ==
  /\ \E w \in Waits : wait' = w
  /\ UNCHANGED <<notDebVars, timeoutId, timers, now, callLog, invoked,
                 cancelledUpTo>>

\* dispose(): this.cancel()
dispose == cancel

\* the host runs the callback of a timer that is due:
\* this.func(...args); this.timeoutId = undefined
TimerExpires ==
  /\ \E t \in timers :
       /\ t.due <= now
       /\ timers' = timers \ {t}
       /\ invoked' = Append(invoked,
                       [args |-> t.args, call |-> t.id, at |-> now])
  /\ timeoutId' = 0
  /\ UNCHANGED <<notDebVars, wait, now, callLog, cancelledUpTo>>

\* the clock advances; a timer that is due may run later than it was due
Tick ==
  /\ now < MaxTime
  /\ now' = now + 1
  /\ UNCHANGED <<notDebVars, timeoutId, wait, timers, callLog, invoked,
                 cancelledUpTo>>

DebounceNext ==
  \/ call
  \/ cancel
  \/ setWait
  \/ dispose
  \/ TimerExpires
  \/ Tick

DebounceSpec == DebounceInit /\ [][DebounceNext]_vars

\* time passes, and the host's event loop runs the callback of a due timer
\* that was not cleared
FairDebounceSpec ==
  DebounceSpec /\ WF_vars(Tick) /\ WF_vars(TimerExpires)

\* ---------------------------------------------------------------------
\* C29: the wrapped function runs only for the latest call(): with that
\* call's arguments, no earlier than that call's wait time after it, and
\* once for it; a call that was followed by another one before its timer
\* ran never runs.  Under the host's scheduling the latest call of a burst
\* does run, unless a later call(), cancel() or dispose() takes its place.
C29_Step ==
  Len(invoked') > Len(invoked) =>
    LET r == invoked'[Len(invoked')]
        n == Len(callLog)
    IN /\ Len(invoked') = Len(invoked) + 1
       /\ n >= 1 /\ r.call = n
       /\ r.args = callLog[n].args
       /\ r.at >= callLog[n].at + callLog[n].wait
       /\ \A k \in 1..Len(invoked) : invoked[k].call # n

\* a call that ran was not followed by another call within its wait time
C29_NoSupersededRun ==
  \A k \in 1..Len(invoked) :
    LET n == invoked[k].call IN
      n < Len(callLog) =>
        callLog[n + 1].at >= callLog[n].at + callLog[n].wait

C29_EventuallyRuns ==
  \A n \in 1..MaxDebounceCalls :
    [](Len(callLog) = n =>
         <>(\/ Len(callLog) > n
            \/ cancelledUpTo >= n
            \/ \E k \in 1..Len(invoked) : invoked[k].call = n))

C29_BurstRunsOnceWithLastArguments ==
  [][C29_Step]_vars /\ []C29_NoSupersededRun /\ C29_EventuallyRuns

\* a burst of two calls one tick apart with a wait of two ticks: the
\* function ran once, with the arguments of the second call
C29_Witness ==
  /\ Len(callLog) = 2
  /\ callLog[1] = [args |-> "editor1", at |-> 0, wait |-> 2]
  /\ callLog[2] = [args |-> "editor2", at |-> 1, wait |-> 2]
  /\ cancelledUpTo = 0
  /\ invoked = << [args |-> "editor2", call |-> 2, at |-> 3] >>
  /\ timers = {} /\ timeoutId = 0

\* ---------------------------------------------------------------------
\* C30: at most one timer set by the instance is pending, whatever the
\* sequence of call, cancel, setWait, dispose and timer expiry; right after
\* cancel() or dispose() no timer is pending, and a run of the wrapped
\* function is always for a call made after the latest cancel() or
\* dispose().
C30_Step ==
  Len(invoked') > Len(invoked) =>
    invoked'[Len(invoked')].call > cancelledUpTo

C30_OneTimer ==
  /\ Cardinality(timers) <= 1
  /\ cancelledUpTo = Len(callLog) => timers = {}
  /\ \A t \in timers : t.id = timeoutId /\ t.id > cancelledUpTo

C30_CancelIsFinal == [][C30_Step]_vars /\ []C30_OneTimer

\* the first call was cancelled after its timer was due and never ran; the
\* function ran for the call made after the cancel
C30_Witness ==
  /\ Len(callLog) = 2 /\ cancelledUpTo = 1
  /\ callLog[1].at + callLog[1].wait <= callLog[2].at
  /\ Len(invoked) = 1 /\ invoked[1].call = 2
  /\ timers = {}

\* ---------------------------------------------------------------------
\* C31: at every step of the HybridLexer scan the depth counter equals the
\* number of entries of the tag stack plus the number of entries of the
\* object-brace stack.
C31_DepthIsStackSizes ==
  lexer = "jsx" => depth = Len(tagStack) + Len(objectBraceStack)

\* inside an open tag and an open object brace of an expression
C31_Witness ==
  /\ lexer = "jsx" /\ pc = "scan" /\ i > 0
  /\ Len(tagStack) = 1 /\ Len(objectBraceStack) = 1 /\ inJsxExpression
  /\ depth = 2

(***************************************************************************)
(* Object documents whose computed keys hold braces.                       *)
(***************************************************************************)
MaxBraceKey == 4

\* object: an object brace, the two ends of a computed key around a brace
\* pair, a colon, a closing brace, an identifier, a blank
BraceKeyPieces ==
  { <<"=","{">>, <<"[","{">>, <<"}","]">>, <<":">>, <<"}">>, <<"k">>,
    <<" ">> }

BraceKeyFamilies ==
  BaseFamilies \cup
  { [lexer |-> "obj", pieces |-> BraceKeyPieces, max |-> MaxBraceKey,
     config |-> BOOLEAN] }

BraceKeySpec == InitOver(BraceKeyFamilies) /\ [][Next]_vars

\* ---------------------------------------------------------------------
\* C32: with the object-brace feature enabled, the brace spans the
\* ObjectLexer returns for a text (positions and depths) are those it
\* returns for the same text under the other value of colorizeKeys.
C32_BraceSpansIgnoreKeyColoring ==
  (lexer = "obj" /\ pc = "done" /\ objectBracesEnabled) =>
    braceRanges(braces) =
      braceRanges(findObjectBracesAndKeys(text, ~colorizeKeys).braces)

\* ---------------------------------------------------------------------
\* C33: while the HybridLexer is inside a JSX expression container, no
\* step changes the tag stack and no step emits a tag token: a step emits
\* object-brace and key tokens only, or the expression-end token of the
\* `}` that ends the container, and the container ends on that token only.
C33_Step ==
  (lexer = "jsx" /\ pc = "scan" /\ inJsxExpression) =>
    /\ tagStack' = tagStack
    /\ Len(tokens') >= Len(tokens)
    /\ SubSeq(tokens', 1, Len(tokens)) = tokens
    /\ \A k \in (Len(tokens) + 1)..Len(tokens') :
         tokens'[k].type \in {"ObjectBrace", "PropertyKey", "ExpressionEnd"}
    /\ ~inJsxExpression' <=>
         /\ Len(tokens') = Len(tokens) + 1
         /\ tokens'[Len(tokens')].type = "ExpressionEnd"
         /\ At(text, i) = "}"

C33_ExpressionHidesTags == [][C33_Step]_vars

\* <a>{<a>} was read: the tag inside the container gave no token and was
\* not pushed
C33_Witness ==
  /\ lexer = "jsx" /\ pc = "done"
  /\ text = <<"<","a",">","{","<","a",">","}">>
  /\ tagStack = << <<"a">> >>
  /\ Len(tokens) = 5
  /\ tokens[4].type = "ExpressionStart" /\ tokens[5].type = "ExpressionEnd"

(***************************************************************************)
(* The extension's event flow.  Each editor shows one document, named like *)
(* the editor; updateDecorations(editor) reads the document's text when it *)
(* runs, which is recorded as the document's version in decorated.         *)
(***************************************************************************)
MaxChanges == 2

\* activate: the debounced update is constructed and updateDecorations has
\* run for the active editor; no document has changed
FlowInit ==
  /\ wait \in Waits
  /\ NoDebounce
  /\ activeTextEditor \in Editors \cup {"none"}
  /\ version = [e \in Editors |-> 0]
  /\ changedActive = [e \in Editors |-> 0]
  /\ decorated = [e \in Editors |-> 0]
  /\ calls = 0 /\ returned = {}
  /\ extPc = "off" /\ languageId = "none" /\ enabled = TRUE
  /\ languages = <<>> /\ decorationTypes = <<>> /\ decorations = <<>>
  /\ lexer = "none" /\ pieces = <<>> /\ text = <<>>
  /\ colorizeKeys = TRUE /\ objectBracesEnabled = TRUE
  /\ pc = "idle" /\ tags = <<>> /\ tagIdx = 0 /\ tagStack = <<>>
  /\ ranges = <<>> /\ i = 0 /\ depth = 0 /\ inJsxExpression = FALSE
  /\ jsxExpressionBraceDepth = 0 /\ objectBraceStack = <<>> /\ tokens = <<>>
  /\ braceStack = <<>> /\ braces = <<>> /\ propertyKeys = <<>>
  /\ lexicalBraces = <<>>

notFlowVars == <<calls, returned, extVars, inputVars, lexerVars>>

\* the number of text changes made so far
RECURSIVE Changes(_)
Changes(S) ==
  IF S = {} THEN 0
  ELSE LET e == CHOOSE x \in S : TRUE IN version[e] + Changes(S \ {e})

\* handleDocumentChange: the text of document d has changed; when d is the
\* document of the active editor, debouncedUpdate.call(editor)
handleDocumentChange ==
  /\ Changes(Editors) < MaxChanges /\ now + wait <= MaxTime
  /\ \E d \in Editors :
       /\ version' = [version EXCEPT ![d] = @ + 1]
       /\ IF activeTextEditor = d
          THEN /\ timers' = clearTimeout(timeoutId) \cup
                    { [id |-> Len(callLog) + 1, args |-> d,
                       due |-> now + wait] }
               /\ callLog' = Append(callLog,
                                [args |-> d, at |-> now, wait |-> wait])
               /\ timeoutId' = Len(callLog) + 1
               /\ changedActive' =
                    [changedActive EXCEPT ![d] = version[d] + 1]
          ELSE UNCHANGED <<timers, callLog, timeoutId, changedActive>>
  /\ UNCHANGED <<notFlowVars, activeTextEditor, decorated, wait, now,
                 invoked, cancelledUpTo>>

\* handleEditorChange: another editor, or none, has become the active one;
\* updateDecorations runs for it
handleEditorChange ==
  /\ \E e \in (Editors \cup {"none"}) \ {activeTextEditor} :
       /\ activeTextEditor' = e
       /\ decorated' = IF e # "none"
                       THEN [decorated EXCEPT ![e] = version[e]]
                       ELSE decorated
  /\ UNCHANGED <<notFlowVars, debVars, version, changedActive>>

\* handleConfigChange: setWait(config.debounceMs), then updateDecorations
\* for every visible editor; the active editor is one of the visible ones
FlowConfigChange ==
  /\ \E w \in Waits : wait' = w
  /\ \E visible \in SUBSET Editors :
       /\ activeTextEditor # "none" => activeTextEditor \in visible
       /\ decorated' = [e \in Editors |->
                          IF e \in visible THEN version[e] ELSE decorated[e]]
  /\ UNCHANGED <<notFlowVars, timeoutId, timers, now, callLog, invoked,
                 cancelledUpTo, activeTextEditor, version, changedActive>>

\* the host runs the callback of a timer that is due:
\* updateDecorations(editor); this.timeoutId = undefined
FlowTimerExpires ==
  /\ \E t \in timers :
       /\ t.due <= now
       /\ timers' = timers \ {t}
       /\ invoked' = Append(invoked,
                       [args |-> t.args, call |-> t.id, at |-> now])
       /\ decorated' = [decorated EXCEPT ![t.args] = version[t.args]]
  /\ timeoutId' = 0
  /\ UNCHANGED <<notFlowVars, wait, now, callLog, cancelledUpTo,
                 activeTextEditor, version, changedActive>>

FlowNext ==
  \/ handleDocumentChange
  \/ handleEditorChange
  \/ FlowConfigChange
  \/ FlowTimerExpires
  \/ Tick

\* time passes, and the host's event loop runs the callback of a due timer
\* that was not cleared; the extension is not deactivated
FlowSpec ==
  FlowInit /\ [][FlowNext]_vars /\ WF_vars(Tick) /\ WF_vars(FlowTimerExpires)

\* ---------------------------------------------------------------------
\* C34: after a text change of the document shown in the active editor,
\* updateDecorations eventually runs for that editor on the changed text
\* (or a later text), however editor switches, changes of other documents
\* and configuration changes interleave.
C34_ChangeIsEventuallyDecorated ==
  \A e \in Editors : \A v \in 1..MaxChanges :
    [](changedActive[e] = v => <>(decorated[e] >= v))
====
